---- MODULE Spec2Model ----
(***************************************************************************)
(* Verification model of the voice/ask pipeline:                           *)
(*   - AskService (features/ask/askService.js): the conversational turn    *)
(*     orchestrator, one process per sendMessage call, interleaved at the  *)
(*     await points of the code;                                           *)
(*   - AskAudioCapture (the capture class with the frame-count VAD         *)
(*     hysteresis): the segmentation engine.                               *)
(***************************************************************************)
EXTENDS Integers, Sequences, FiniteSets, TLC

(***************************************************************************)
(* Bounds of the model.                                                    *)
(***************************************************************************)
MaxTurns == 2
MaxTokens == 2

Turns == 1..MaxTurns

VARIABLES
    state,            \* AskService.state (ConversationState)
    abortController,  \* AskService.abortController: 0 = null, t = the controller created by turn t
    turns,            \* per sendMessage call: its position and its local variables
    askWinAvailable,  \* getWindowPool()?.get('ask') exists and is not destroyed
    closePc,          \* position of the closeAskWindow call in flight
    sttSession,       \* AskSttService.sttSession !== null
    closedClean,      \* history: closeAskWindow has reset the state and nothing was submitted since
    sent,             \* the events the last step sent to the ask window, as [event, turn]
    returned          \* the sendMessage call that returned in the last step, and how

askVars == <<state, abortController, turns, askWinAvailable, closePc,
             sttSession, closedClean, sent, returned>>

VARIABLES
    isCapturing,        \* AskAudioCapture.isCapturing
    currentSegment,     \* AskAudioCapture.currentSegment, as its length in samples
    isCurrentlyVoice,   \* AskAudioCapture.isCurrentlyVoice
    voiceFrameCount,    \* AskAudioCapture.voiceFrameCount
    silenceFrameCount,  \* AskAudioCapture.silenceFrameCount
    lastEnd,            \* history: outcome of the last endVoiceSegment that ran
    lastFrame,          \* history: the VAD verdict on the chunk the last step handled
    lastCall            \* history: the method the last step ran, and what it returned

captureVars == <<isCapturing, currentSegment, isCurrentlyVoice, voiceFrameCount,
                 silenceFrameCount, lastEnd, lastFrame, lastCall>>

VARIABLES
    modelInfo,            \* AskSttService.modelInfo: "none" = null, else modelInfo.provider
    sttServiceSession,    \* AskSttService.sttSession !== null
    sttIsListening,       \* AskSttService.isListening
    currentTranscription, \* AskSttService.currentTranscription
    adapter,              \* the connection createSTT made: "none", "open" or "closed"
    initPc,               \* position of the initializeSession call in flight
    initReturned,         \* history: what initializeSession returned in the last step
    closeSessionPc,       \* position of the closeSession call in flight
    closeCalls,           \* history: closeSession calls since the session was created
    disconnected,         \* history: 'disconnected' statuses since the session was created
    sinceFinal,           \* history: the text received since the last final or turn-complete
    lastMessage,          \* history: the raw message the last step handled
    calls                 \* the callbacks the last step invoked, in order

sttVars == <<modelInfo, sttServiceSession, sttIsListening, currentTranscription,
             adapter, initPc, closeSessionPc, closeCalls, disconnected, sinceFinal,
             lastMessage, calls, initReturned>>

VARIABLES
    vad,                 \* AskAudioCaptureVAD.vad !== null
    isConversationMode,  \* AskAudioCaptureVAD.isConversationMode
    isSpeaking,          \* AskAudioCaptureVAD.isSpeaking
    isProcessing,        \* AskAudioCaptureVAD.isProcessing
    currentSpeechBuffer, \* AskAudioCaptureVAD.currentSpeechBuffer, as its length in audio blocks
    ttsPlaying,          \* what window.api.voice.tts.isPlaying() answers
    startPc,             \* position of the startConversationMode call in flight
    speechEndPc,         \* position of the handleVADSpeechEnd call in flight
    stopPc,              \* position of the stopConversationMode call in flight
    lastVad,             \* history: the VAD callback the last step handled
    notified,            \* the callbacks and state changes the last step raised, in order
    segmentSends         \* history: sendAudioData calls made with the segment delivered last

vadVars == <<vad, isConversationMode, isSpeaking, isProcessing, currentSpeechBuffer,
             ttsPlaying, startPc, speechEndPc, stopPc, lastVad, notified, segmentSends>>

VARIABLES
    voicePc,        \* position of the startVoiceInput call in flight
    voiceReturned,  \* history: the voice call that returned in the last step, and how
    orphaned        \* history: open adapter sessions that sttSession no longer refers to

voiceVars == <<voicePc, voiceReturned, orphaned>>

VARIABLES
    mediaStream,      \* AskAudioCapture.mediaStream: 0 = null, p = the stream call p was given
    audioContext,     \* AskAudioCapture.audioContext: 0 = null, p = the context call p made
    audioProcessor,   \* AskAudioCapture.audioProcessor: 0 = null, p = the processor call p made
    liveStreams,      \* the media streams whose tracks were not stopped
    liveContexts,     \* the audio contexts that were not closed
    connected,        \* the script processors that are connected, each with its context
    startCapturePc,   \* per startCapture call: its position
    startReturned     \* history: the startCapture call that returned in the last step

deviceVars == <<mediaStream, audioContext, audioProcessor, liveStreams, liveContexts,
                connected, startCapturePc, startReturned>>

VARIABLES
    float32Array,   \* the chunk handed to convertFloat32ToInt16, in units of 1/Denominator
    int16Array,     \* the Int16Array convertFloat32ToInt16 returned
    base64Data,     \* the string arrayBufferToBase64 returned, as base64 digits
    decoded,        \* the 16-bit samples read back from base64Data
    pcmPc           \* how far the chunk has come

pcmVars == <<float32Array, int16Array, base64Data, decoded, pcmPc>>

VARIABLES
    audioCache,     \* TTSService.audioCache, as its keys in insertion order
    generating,     \* the cache key of the speak call that awaits generateSpeech, 0 = none
    lastUsed,       \* history: the cached keys, least recently used first
    hits            \* history: the number of speak calls answered from the cache

ttsVars == <<audioCache, generating, lastUsed, hits>>

VARIABLES
    loop,          \* which loop reads the stream: "primary" is _processStream
    frames,        \* history: the frames the server sent, in order
    body,          \* response.body: the text that was not read yet, in pieces
    accumulated,   \* fullResponse or conversationalResponse, as its tokens
    streamPc       \* position of the loop

sseVars == <<loop, frames, body, accumulated, streamPc>>

vars == <<askVars, captureVars, sttVars, vadVars, voiceVars, deviceVars, pcmVars,
         ttsVars, sseVars>>

(***************************************************************************)
(* AskService                                                              *)
(***************************************************************************)

\* A response text is the first n tokens of the stream opened by call
\* ("primary" or "fallback") of turn t; the empty string is EmptyResp.
EmptyResp == [turn |-> 0, call |-> "none", n |-> 0]

Resp(t, call, n) == IF n = 0 THEN EmptyResp ELSE [turn |-> t, call |-> call, n |-> n]

\* constructor: this.state (texts: 0 or FALSE is the empty string)
DefaultState ==
    [isLoading |-> FALSE, isStreaming |-> FALSE, currentQuestion |-> 0,
     currentResponse |-> EmptyResp, conversationalResponse |-> 0,
     showTextInput |-> TRUE, isListening |-> FALSE, sttTranscription |-> FALSE]

\* Error messages a rejected call can carry, as the set of the lower-cased
\* words of error.message.
ErrorMessages ==
    { {"model", "does", "not", "accept", "unsupported", "content"},
      {"network", "timeout"} }

NoError == {}

MultimodalMarkers ==
    {"vision", "image", "multimodal", "unsupported", "image_url", "400", "invalid",
     "not supported"}

IsMultimodalErrorAlways(errorMessage) == errorMessage = errorMessage

\* _isMultimodalError: errorMessage.includes(marker) for one of the markers
IsMultimodalError(errorMessage) == \E m \in MultimodalMarkers : m \in errorMessage

\* The position and the local variables of one sendMessage call.
IdleTurn ==
    [pc |-> "idle",             \* await point the call is suspended at
     aborted |-> FALSE,         \* signal.aborted
     listener |-> FALSE,        \* the 'abort' listener was added before the signal fired
     readerCancelled |-> FALSE, \* reader.cancel() was called on the open reader
     isVoiceMode |-> FALSE,
     screenshotBase64 |-> FALSE,
     conversationalPromise |-> "none",  \* "none" (not started) or "pending"
     call |-> "none",           \* which streamChat call opened the stream being read
     fullResponse |-> 0,        \* _processStream.fullResponse, in tokens
     error |-> NoError,         \* multimodalError.message
     modelCalls |-> 0,          \* history: streamChat calls made for the response
     assistantSaved |-> 0]      \* history: assistant messages persisted

\* A call that has returned: its locals are gone.
DoneTurn == [IdleTurn EXCEPT !.pc = "done"]

\* What the last step returned from sendMessage:
\*   result: "success" ({ success: true }), "failure" (the catch block),
\*           "unavailable" (the early return when the ask window is gone);
\*   cause: the await that threw; saved: assistant messages persisted by the
\*   call; saveFailed: its last addAiMessage was rejected; conversational:
\*   the awaited value of conversationalPromise ("text", "empty" or "none").
NoReturn ==
    [turn |-> 0, result |-> "none", cause |-> "none", saved |-> 0,
     saveFailed |-> FALSE, conversational |-> "none"]

AskInit ==
    /\ state = DefaultState
    /\ abortController = 0
    /\ turns = [t \in Turns |-> IdleTurn]
    /\ askWinAvailable = TRUE
    /\ closePc = "idle"
    /\ sttSession = FALSE
    /\ closedClean = FALSE
    /\ sent = {}
    /\ returned = NoReturn

Started == {t \in Turns : turns[t].pc # "idle"}

Live == {t \in Turns : turns[t].pc \notin {"idle", "done"}}

\* AbortController.abort(): the signal becomes aborted and its listeners
\* run; the only listener is the one that cancels the reader.
Abort(ts, c) ==
    IF c = 0 \/ ts[c].pc = "done" THEN ts
    ELSE [ts EXCEPT ![c].aborted = TRUE,
                    ![c].readerCancelled = @ \/ (ts[c].listener /\ ts[c].pc = "reading")]

\* sendMessage returns
Return(t, tr, result, cause, saveFailed, conversational) ==
    /\ turns' = [turns EXCEPT ![t] = DoneTurn]
    /\ returned' = [turn |-> t, result |-> result, cause |-> cause,
                    saved |-> tr.assistantSaved, saveFailed |-> saveFailed,
                    conversational |-> conversational]

\* sendMessage is suspended at the await pc with the locals tr
Suspend(t, tr, pc) ==
    /\ turns' = [turns EXCEPT ![t] = [tr EXCEPT !.pc = pc]]
    /\ returned' = NoReturn

\* sendMessage up to its first await (getOrCreateActive), entered with the
\* state st.
SendMessageFrom(st, t) ==
    /\ state' = [st EXCEPT !.isLoading = TRUE, !.isStreaming = FALSE,
                           !.currentQuestion = t, !.currentResponse = EmptyResp,
                           !.showTextInput = FALSE]
    /\ turns' = [Abort(turns, abortController) EXCEPT
                    ![t].pc = "persist",
                    ![t].isVoiceMode = st.isListening \/ st.sttTranscription]
    /\ abortController' = t
    /\ closedClean' = FALSE
    /\ sent' = {}
    /\ returned' = NoReturn

\* sendMessage called from the ask window (a typed question)
SendMessage ==
    /\ Cardinality(Started) < MaxTurns
    /\ SendMessageFrom(state, Cardinality(Started) + 1)
    /\ UNCHANGED <<askWinAvailable, closePc, sttSession>>

\* The catch block at the end of sendMessage.
Fail(t, cause) ==
    /\ state' = [state EXCEPT !.isLoading = FALSE, !.isStreaming = FALSE,
                              !.showTextInput = TRUE]
    /\ Return(t, turns[t], "failure", cause, FALSE, "none")
    /\ sent' = IF askWinAvailable
               THEN {[event |-> "ask-response-stream-error", turn |-> t]}
               ELSE {}

\* await sessionRepository.getOrCreateActive('ask'); await
\* askRepository.addAiMessage({ role: 'user' }): either may reject
Persist(t) ==
    /\ turns[t].pc = "persist"
    /\ \/ /\ Suspend(t, turns[t], "prepare")
          /\ sent' = {}
          /\ UNCHANGED state
       \/ Fail(t, "persistence")
    /\ UNCHANGED <<abortController, askWinAvailable, closePc, sttSession, closedClean>>

\* await modelStateService.getCurrentModelInfo('llm'); await
\* captureScreenshot(); then the parallel generation is started in voice mode
\* and streamChat(messages) is called
Prepare(t) ==
    /\ turns[t].pc = "prepare"
    /\ \/ /\ \E img \in BOOLEAN :
               Suspend(t, [turns[t] EXCEPT
                                  !.screenshotBase64 = img,
                                  !.conversationalPromise =
                                      IF turns[t].isVoiceMode THEN "pending" ELSE "none",
                                  !.modelCalls = 1],
                       "streamChat")
          /\ sent' = {}
          /\ UNCHANGED state
       \/ Fail(t, "getCurrentModelInfo")
    /\ UNCHANGED <<abortController, askWinAvailable, closePc, sttSession, closedClean>>

StreamStartStateStreamingOnly(st) == [st EXCEPT !.isStreaming = TRUE]

\* _processStream, lines 488-489: the state it starts with
StreamStartState(st) == [st EXCEPT !.isLoading = FALSE, !.isStreaming = TRUE]

\* A streamChat call resolved: the window check, the reader, the abort
\* listener and the synchronous head of _processStream. (screenshotBase64 and
\* multimodalError are not read again once a stream is open.)
OpenStream(t, call) ==
    /\ IF ~askWinAvailable
       THEN /\ Return(t, turns[t], "unavailable", "none", FALSE, "none")
            /\ UNCHANGED state
       ELSE /\ Suspend(t, [turns[t] EXCEPT !.call = call,
                                           !.listener = ~turns[t].aborted,
                                           !.screenshotBase64 = FALSE,
                                           !.error = NoError],
                       "reading")
            /\ state' = StreamStartState(state)
    /\ sent' = {}

\* await streamingLLM.streamChat(messages)
StreamChat(t) ==
    /\ turns[t].pc = "streamChat"
    /\ \/ OpenStream(t, "primary")
       \/ \E msg \in ErrorMessages :
             IF turns[t].screenshotBase64 /\ IsMultimodalError(msg)
             THEN /\ Suspend(t, [turns[t] EXCEPT !.error = msg,
                                                 !.modelCalls = @ + 1],
                             "fallbackChat")
                  /\ sent' = {}
                  /\ UNCHANGED state
             ELSE Fail(t, "streamChat")
    /\ UNCHANGED <<abortController, askWinAvailable, closePc, sttSession, closedClean>>

\* await streamingLLM.streamChat(textOnlyMessages)
FallbackChat(t) ==
    /\ turns[t].pc = "fallbackChat"
    /\ \/ OpenStream(t, "fallback")
       \/ Fail(t, "fallbackChat")
    /\ UNCHANGED <<abortController, askWinAvailable, closePc, sttSession, closedClean>>

\* The statements of sendMessage that follow "await this._processStream(...)":
\* the primary path awaits the parallel generation when one was started, the
\* fallback path returns at once.
AfterStream(t, tr, saveFailed) ==
    IF tr.call = "primary" /\ tr.conversationalPromise # "none"
    THEN Suspend(t, tr, "awaitConversational")
    ELSE Return(t, tr, "success", "none", saveFailed, "none")

StreamEndStateDropped(st, resp) ==
    [st EXCEPT !.isStreaming = FALSE, !.currentResponse = EmptyResp]

\* _processStream, finally block: the state it leaves
StreamEndState(st, resp) ==
    [st EXCEPT !.isStreaming = FALSE, !.currentResponse = resp]

\* _processStream, finally block
Finally(t, tr) ==
    /\ state' = StreamEndState(state, Resp(t, tr.call, tr.fullResponse))
    /\ IF tr.fullResponse > 0
       THEN Suspend(t, tr, "saveAssistant")
       ELSE AfterStream(t, tr, FALSE)

\* _processStream: reader.read() delivered a chunk with one content delta
ReadToken(t) ==
    /\ turns[t].pc = "reading"
    /\ ~turns[t].readerCancelled
    /\ turns[t].fullResponse < MaxTokens
    /\ Suspend(t, [turns[t] EXCEPT !.fullResponse = @ + 1], "reading")
    /\ state' = [state EXCEPT
                    !.currentResponse = Resp(t, turns[t].call, turns[t].fullResponse + 1)]
    /\ sent' = {}
    /\ UNCHANGED <<abortController, askWinAvailable, closePc, sttSession, closedClean>>

\* _processStream: reader.read() reported done (end of the body, or the
\* reader was cancelled), or a 'data: [DONE]' frame was read
ReadEnd(t) ==
    /\ turns[t].pc = "reading"
    /\ Finally(t, turns[t])
    /\ sent' = {}
    /\ UNCHANGED <<abortController, askWinAvailable, closePc, sttSession, closedClean>>

\* _processStream: reader.read() rejected (catch block, then finally)
ReadError(t) ==
    /\ turns[t].pc = "reading"
    /\ Finally(t, turns[t])
    /\ sent' = IF ~turns[t].aborted /\ askWinAvailable
               THEN {[event |-> "ask-response-stream-error", turn |-> t]}
               ELSE {}
    /\ UNCHANGED <<abortController, askWinAvailable, closePc, sttSession, closedClean>>

\* _processStream: await askRepository.addAiMessage({ role: 'assistant' });
\* a rejection is caught and logged
SaveAssistant(t) ==
    /\ turns[t].pc = "saveAssistant"
    /\ \E ok \in BOOLEAN :
          AfterStream(t, [turns[t] EXCEPT
                             !.assistantSaved = @ + (IF ok THEN 1 ELSE 0)],
                      ~ok)
    /\ sent' = {}
    /\ UNCHANGED <<state, abortController, askWinAvailable, closePc, sttSession, closedClean>>

\* sendMessage: await conversationalPromise (the trimmed text of the
\* parallel generation, possibly '', or the sentence of its catch block) and
\* the merge of its value
AwaitConversational(t) ==
    /\ turns[t].pc = "awaitConversational"
    /\ \E conversationalResponse \in {"text", "empty"} :
          /\ IF conversationalResponse = "text"
             THEN /\ state' = [state EXCEPT !.conversationalResponse = t]
                  /\ sent' = IF askWinAvailable
                             THEN {[event |-> "ask:conversationalResponse", turn |-> t]}
                             ELSE {}
             ELSE /\ sent' = {}
                  /\ UNCHANGED state
          /\ Return(t, turns[t], "success", "none", FALSE, conversationalResponse)
    /\ UNCHANGED <<abortController, askWinAvailable, closePc, sttSession, closedClean>>

\* closeAskWindow up to "await this.stopVoiceInput()" (which runs
\* sttService.stopListening up to its return), or to its end when the
\* service is not listening
CloseAskWindow ==
    /\ closePc = "idle"
    /\ turns' = Abort(turns, abortController)
    /\ abortController' = 0
    /\ IF state.isListening
       THEN /\ closePc' = "stopVoiceInput"
            /\ UNCHANGED <<state, closedClean>>
       ELSE /\ state' = DefaultState
            /\ closedClean' = TRUE
            /\ UNCHANGED closePc
    /\ sent' = {}
    /\ returned' = NoReturn
    /\ UNCHANGED <<askWinAvailable, sttSession>>

\* closeAskWindow: stopVoiceInput resumes after stopListening and returns
CloseStopVoiceInput ==
    /\ closePc = "stopVoiceInput"
    /\ closePc' = "reset"
    /\ state' = [state EXCEPT !.isListening = FALSE]
    /\ sent' = {}
    /\ returned' = NoReturn
    /\ UNCHANGED <<abortController, turns, askWinAvailable, sttSession, closedClean>>

\* closeAskWindow: the state reset after the await
CloseReset ==
    /\ closePc = "reset"
    /\ closePc' = "idle"
    /\ state' = DefaultState
    /\ closedClean' = TRUE
    /\ sent' = {}
    /\ returned' = NoReturn
    /\ UNCHANGED <<abortController, turns, askWinAvailable, sttSession>>

\* startVoiceInput: initializeSession, startListening and the state update
\* (or the error callback when the session cannot be initialized)
StartVoiceInput ==
    /\ ~state.isListening
    /\ \/ /\ sttSession' = TRUE
          /\ state' = [state EXCEPT !.isListening = TRUE, !.sttTranscription = FALSE]
       \/ /\ ~sttSession
          /\ state' = [state EXCEPT !.isListening = FALSE]
          /\ UNCHANGED sttSession
    /\ closedClean' = FALSE
    /\ sent' = {}
    /\ returned' = NoReturn
    /\ UNCHANGED <<abortController, turns, askWinAvailable, closePc>>

\* onTranscriptionComplete with a non-blank text: the callback of a final
\* transcription, which submits the text with sendMessage
OnTranscriptionComplete ==
    /\ sttSession
    /\ Cardinality(Started) < MaxTurns
    /\ SendMessageFrom([state EXCEPT !.sttTranscription = TRUE, !.isListening = FALSE],
                       Cardinality(Started) + 1)
    /\ UNCHANGED <<askWinAvailable, closePc, sttSession>>

\* The ask window is destroyed.
WindowDestroyed ==
    /\ askWinAvailable
    /\ askWinAvailable' = FALSE
    /\ sent' = {}
    /\ returned' = NoReturn
    /\ UNCHANGED <<state, abortController, turns, closePc, sttSession, closedClean>>

AskNext ==
    \/ SendMessage
    \/ OnTranscriptionComplete
    \/ StartVoiceInput
    \/ CloseAskWindow
    \/ CloseStopVoiceInput
    \/ CloseReset
    \/ WindowDestroyed
    \/ \E t \in Turns :
          \/ Persist(t)
          \/ Prepare(t)
          \/ StreamChat(t)
          \/ FallbackChat(t)
          \/ ReadToken(t)
          \/ ReadEnd(t)
          \/ ReadError(t)
          \/ SaveAssistant(t)
          \/ AwaitConversational(t)

TextNext ==
    \/ SendMessage
    \/ CloseAskWindow
    \/ WindowDestroyed
    \/ \E t \in Turns :
          \/ Persist(t)
          \/ Prepare(t)
          \/ StreamChat(t)
          \/ FallbackChat(t)
          \/ ReadToken(t)
          \/ ReadEnd(t)
          \/ ReadError(t)
          \/ SaveAssistant(t)

(***************************************************************************)
(* AskAudioCapture: segmentation of the chunk stream                       *)
(***************************************************************************)

SAMPLE_RATE == 24000
AUDIO_CHUNK_DURATION == 100       \* milliseconds (0.1 s)
SILENCE_THRESHOLD_FRAMES == 5
VOICE_THRESHOLD_FRAMES == 2
MAX_SEGMENT_DURATION == 30000     \* milliseconds (30 s)
MIN_SEGMENT_DURATION == 500       \* milliseconds (0.5 s)

\* Longest buffer followed, in chunks.
MaxChunks == 303

\* startCapture: SAMPLE_RATE * AUDIO_CHUNK_DURATION
samplesPerChunk == (SAMPLE_RATE * AUDIO_CHUNK_DURATION) \div 1000

NoEnd == [kind |-> "none", len |-> 0]

Called(op, result) == [op |-> op, result |-> result]

CaptureInit ==
    /\ isCapturing = FALSE
    /\ currentSegment = 0
    /\ isCurrentlyVoice = FALSE
    /\ voiceFrameCount = 0
    /\ silenceFrameCount = 0
    /\ lastEnd = NoEnd
    /\ lastFrame = "none"
    /\ lastCall = Called("none", "undefined")

\* segmentDuration >= limit, for a buffer of len samples and a limit in ms
DurationAtLeast(len, limit) == len * 1000 >= limit * SAMPLE_RATE

MeetsMinimumAlways(len) == len >= 0

\* endVoiceSegment: segmentDuration >= this.MIN_SEGMENT_DURATION
MeetsMinimum(len) == DurationAtLeast(len, MIN_SEGMENT_DURATION)

\* The capture state as a record, so that the methods compose.
Capture(seg, voice, vfc, sfc, end) ==
    [currentSegment |-> seg, isCurrentlyVoice |-> voice, voiceFrameCount |-> vfc,
     silenceFrameCount |-> sfc, lastEnd |-> end]

\* endVoiceSegment
endVoiceSegment(c) ==
    IF ~c.isCurrentlyVoice THEN c
    ELSE Capture(0, FALSE, 0, 0,
                 [kind |-> IF MeetsMinimum(c.currentSegment) THEN "sent" ELSE "dropped",
                  len |-> c.currentSegment])

VoiceOnsetAtOnce(count) == count >= 1

\* handleVoiceSegment: this.voiceFrameCount >= this.VOICE_THRESHOLD_FRAMES
VoiceOnset(count) == count >= VOICE_THRESHOLD_FRAMES

SilenceEndsAtOnce(count) == count >= 1

\* handleVoiceSegment: this.silenceFrameCount >= this.SILENCE_THRESHOLD_FRAMES
SilenceEnds(count) == count >= SILENCE_THRESHOLD_FRAMES

\* handleVoiceSegment(audioChunk, hasVoice, voiceLevel)
handleVoiceSegment(c, hasVoice) ==
    LET pushed == [c EXCEPT !.currentSegment = @ + samplesPerChunk]
        counted ==
            IF hasVoice
            THEN [pushed EXCEPT
                    !.voiceFrameCount = @ + 1,
                    !.silenceFrameCount = 0,
                    !.isCurrentlyVoice =
                        @ \/ VoiceOnset(c.voiceFrameCount + 1)]
            ELSE LET silent == [pushed EXCEPT !.silenceFrameCount = @ + 1,
                                              !.voiceFrameCount = 0]
                 IN  IF silent.isCurrentlyVoice
                        /\ SilenceEnds(silent.silenceFrameCount)
                     THEN endVoiceSegment(silent)
                     ELSE silent
    IN  IF DurationAtLeast(counted.currentSegment, MAX_SEGMENT_DURATION)
        THEN endVoiceSegment(counted)
        ELSE counted

Current == Capture(currentSegment, isCurrentlyVoice, voiceFrameCount,
                   silenceFrameCount, NoEnd)

Install(c) ==
    /\ currentSegment' = c.currentSegment
    /\ isCurrentlyVoice' = c.isCurrentlyVoice
    /\ voiceFrameCount' = c.voiceFrameCount
    /\ silenceFrameCount' = c.silenceFrameCount
    /\ lastEnd' = c.lastEnd

\* cleanup: the segmentation fields it resets
cleanup(c) == Capture(0, FALSE, 0, 0, c.lastEnd)

\* startCapture: the microphone and the audio graph are acquired, or the
\* catch block runs cleanup
StartCapture ==
    /\ \/ /\ isCapturing
          /\ UNCHANGED isCapturing
          /\ Install(Current)
          /\ lastCall' = Called("startCapture", "false")
       \/ /\ ~isCapturing
          /\ isCapturing' = TRUE
          /\ Install(Current)
          /\ lastCall' = Called("startCapture", "true")
       \/ /\ ~isCapturing
          /\ isCapturing' = FALSE
          /\ Install(cleanup(Current))
          /\ lastCall' = Called("startCapture", "false")
    /\ lastFrame' = "none"

\* onaudioprocess: one chunk of samplesPerChunk samples goes through the VAD
\* and handleVoiceSegment
ProcessChunk ==
    /\ isCapturing
    /\ currentSegment < MaxChunks * samplesPerChunk
    /\ \E hasVoice \in BOOLEAN :
          /\ Install(handleVoiceSegment(Current, hasVoice))
          /\ lastFrame' = IF hasVoice THEN "voice" ELSE "silence"
    /\ lastCall' = Called("onaudioprocess", "undefined")
    /\ UNCHANGED isCapturing

stopCaptureReleasing(c) == cleanup(c)

\* stopCapture, past its isCapturing guard: the open segment is ended, then
\* cleanup runs
stopCapture(c) == cleanup(IF c.isCurrentlyVoice THEN endVoiceSegment(c) ELSE c)

\* stopCapture
StopCapture ==
    /\ \/ /\ ~isCapturing
          /\ Install(Current)
          /\ UNCHANGED isCapturing
       \/ /\ isCapturing
          /\ Install(stopCapture(Current))
          /\ isCapturing' = FALSE
    /\ lastFrame' = "none"
    /\ lastCall' = Called("stopCapture", "undefined")

CaptureNext ==
    \/ StartCapture
    \/ ProcessChunk
    \/ StopCapture

(***************************************************************************)
(* AskSttService                                                           *)
(***************************************************************************)

MaxCloseCalls == 2
MaxAccum == 4

Providers == {"whisper", "deepgram", "gemini", "openai"}

\* A text is a sequence of units: single characters and the markers the
\* service looks for, each marker kept whole.
NoisePatterns ==
    {"[BLANK_AUDIO]", "[INAUDIBLE]", "[MUSIC]", "[SOUND]", "[NOISE]",
     "(BLANK_AUDIO)", "(INAUDIBLE)", "(MUSIC)", "(SOUND)", "(NOISE)"}

GeminiNoise == "<noise>"

AudioMarker == "vq_lbr_audio_"

\* String.length of one unit
UnitLen(u) ==
    IF u = "[NOISE]" \/ u = GeminiNoise THEN 7
    ELSE IF u = AudioMarker THEN 13
    ELSE 1

RECURSIVE CharLen(_)
\* String.length
CharLen(text) == IF text = <<>> THEN 0 ELSE UnitLen(Head(text)) + CharLen(Tail(text))

RECURSIVE TrimStart(_)
TrimStart(text) ==
    IF text # <<>> /\ Head(text) = " " THEN TrimStart(Tail(text)) ELSE text

RECURSIVE TrimEnd(_)
TrimEnd(text) ==
    IF text # <<>> /\ text[Len(text)] = " "
    THEN TrimEnd(SubSeq(text, 1, Len(text) - 1))
    ELSE text

\* String.prototype.trim
Trim(text) == TrimEnd(TrimStart(text))

\* String.prototype.includes, for a marker
Includes(text, marker) == \E i \in 1..Len(text) : text[i] = marker

\* The texts a raw message of each provider can carry; <<>> stands for an
\* absent or empty field.
Texts(provider) ==
    IF provider = "whisper"
    THEN { <<>>, <<" ">>, <<"a", "b">>, <<"a", "b", "c">>, <<" ", "a", "b", "c", " ">>,
           <<"[NOISE]">>, <<"[NOISE]", "a", "b">> }
    ELSE IF provider = "deepgram"
    THEN { <<>>, <<" ">>, <<"a", "b", "c">> }
    ELSE IF provider = "gemini"
    THEN { <<>>, <<" ">>, <<GeminiNoise>>, <<"a">>, <<"b", "c">> }
    ELSE { <<>>, <<" ">>, <<AudioMarker>>, <<"a">>, <<"b", "c">> }

MessageTypes == {"delta", "completed", "other"}

\* A raw message: text is message.text (whisper), the first alternative's
\* transcript (deepgram), serverContent.inputTranscription.text (gemini) or
\* transcript / delta (others).
Message(text, is_final, turnComplete, type, error) ==
    [text |-> text, is_final |-> is_final, turnComplete |-> turnComplete,
     type |-> type, error |-> error]

NoMessage == Message(<<>>, FALSE, FALSE, "none", FALSE)

\* The messages of each provider's shape.
Messages(provider) ==
    IF provider = "whisper"
    THEN {Message(t, FALSE, FALSE, "other", e) : t \in Texts(provider), e \in BOOLEAN}
    ELSE IF provider = "deepgram"
    THEN {Message(t[1], t[2], FALSE, "other", e) :
            t \in Texts(provider) \X BOOLEAN, e \in BOOLEAN}
    ELSE IF provider = "gemini"
    THEN {Message(t[1], FALSE, t[2], "other", e) :
            t \in Texts(provider) \X BOOLEAN, e \in BOOLEAN}
    ELSE {Message(t[1], FALSE, FALSE, t[2], e) :
            t \in Texts(provider) \X MessageTypes, e \in BOOLEAN}

Call(cb, text, isFinal, status) ==
    [cb |-> cb, text |-> text, isFinal |-> isFinal, status |-> status]

Update(text, isFinal) == Call("onTranscriptionUpdate", text, isFinal, "")

Complete(text) == Call("onTranscriptionComplete", text, TRUE, "")

Status(status) == Call("onStatusUpdate", <<>>, FALSE, status)

Error == Call("onError", <<>>, FALSE, "")

\* What one branch of handleMessage leaves: the accumulator, the callbacks
\* it invoked, and whether it returned before the error check.
Handled(ct, cs, early) ==
    [currentTranscription |-> ct, calls |-> cs, returned |-> early]

HandleWhisper(ct, message) ==
    LET finalText == Trim(message.text)
        isNoise == \E pattern \in NoisePatterns :
                      Includes(finalText, pattern) \/ finalText = <<pattern>>
    IN  IF finalText # <<>> /\ ~isNoise /\ CharLen(finalText) > 2
        THEN Handled(finalText, <<Update(finalText, TRUE), Complete(finalText)>>, FALSE)
        ELSE Handled(ct, <<>>, FALSE)

HandleDeepgram(ct, message) ==
    LET text == message.text
    IN  IF text = <<>> \/ CharLen(Trim(text)) = 0 THEN Handled(ct, <<>>, TRUE)
        ELSE IF message.is_final
        THEN Handled(text, <<Update(text, TRUE), Complete(text)>>, FALSE)
        ELSE Handled(ct, <<Update(text, FALSE)>>, FALSE)

IsGeminiNoiseNever(textChunk) == textChunk # textChunk

\* handleMessage, gemini: !textChunk.trim() || textChunk.trim() === '<noise>'
IsGeminiNoise(textChunk) == Trim(textChunk) = <<>> \/ Trim(textChunk) = <<GeminiNoise>>

HandleGemini(ct, message) ==
    LET textChunk == message.text
    IN  IF message.turnComplete
        THEN Handled(ct, IF ct # <<>> THEN <<Complete(ct)>> ELSE <<>>, TRUE)
        ELSE IF textChunk = <<>> THEN Handled(ct, <<>>, TRUE)
        ELSE IF IsGeminiNoise(textChunk)
        THEN Handled(ct, <<>>, TRUE)
        ELSE Handled(ct \o textChunk, <<Update(ct \o textChunk, FALSE)>>, FALSE)

HandleOther(ct, message) ==
    LET text == message.text
    IN  IF message.type = "delta"
        THEN Handled(ct \o text,
                     IF text # <<>> /\ ~Includes(text, AudioMarker)
                     THEN <<Update(ct \o text, FALSE)>> ELSE <<>>,
                     FALSE)
        ELSE IF message.type = "completed" /\ Trim(text) # <<>>
        THEN Handled(Trim(text), <<Update(Trim(text), TRUE), Complete(Trim(text))>>, FALSE)
        ELSE Handled(ct, <<>>, FALSE)

\* handleMessage, for a session whose modelInfo is set
handleMessage(provider, ct, message) ==
    LET h == IF provider = "whisper" THEN HandleWhisper(ct, message)
             ELSE IF provider = "deepgram" THEN HandleDeepgram(ct, message)
             ELSE IF provider = "gemini" THEN HandleGemini(ct, message)
             ELSE HandleOther(ct, message)
    IN  IF ~h.returned /\ message.error
        THEN [h EXCEPT !.calls = Append(@, Error)]
        ELSE h

SttInit ==
    /\ modelInfo = "none"
    /\ sttServiceSession = FALSE
    /\ sttIsListening = FALSE
    /\ currentTranscription = <<>>
    /\ adapter = "none"
    /\ initPc = "idle"
    /\ closeSessionPc = "idle"
    /\ closeCalls = 0
    /\ disconnected = 0
    /\ sinceFinal = <<>>
    /\ lastMessage = NoMessage
    /\ calls = <<>>
    /\ initReturned = "none"

\* 'disconnected' statuses among the callbacks of a step
Disconnects(cs) == Cardinality({i \in 1..Len(cs) : cs[i] = Status("disconnected")})

\* A step of the service that handles no message: what it invokes, and what
\* initializeSession returns when the step is its last.
InvokeReturning(cs, result) ==
    /\ calls' = cs
    /\ lastMessage' = NoMessage
    /\ disconnected' = disconnected + Disconnects(cs)
    /\ initReturned' = result

Invoke(cs) == InvokeReturning(cs, "none")

initializeSessionCatchTwice == <<Error, Error>>

\* initializeSession: what its catch block invokes
initializeSessionCatch == <<Error>>

\* initializeSession up to createSTT: getCurrentModelInfo answers with a
\* configured provider, or the catch block reports the failure. The call is
\* followed to createSTT when followed holds.
InitializeSessionWhen(followed) ==
    /\ initPc = "idle"
    /\ closeSessionPc = "idle"
    /\ \/ \E provider \in Providers :
            /\ followed
            /\ modelInfo' = provider
            /\ initPc' = "createSTT"
            /\ Invoke(<<>>)
       \/ /\ InvokeReturning(initializeSessionCatch, "false")
          /\ UNCHANGED <<modelInfo, initPc>>
    /\ UNCHANGED <<sttServiceSession, sttIsListening, currentTranscription, adapter,
                   closeSessionPc, closeCalls, sinceFinal>>

\* initializeSession called on the service while no session of it is open
InitializeSession == InitializeSessionWhen(adapter # "open")

\* initializeSession: createSTT resolves with the session, or rejects
CreateSTT ==
    /\ initPc = "createSTT"
    /\ initPc' = "idle"
    /\ \/ /\ sttServiceSession' = TRUE
          /\ adapter' = "open"
          /\ closeCalls' = 0
          /\ calls' = <<Status("ready")>>
          /\ lastMessage' = NoMessage
          /\ disconnected' = 0
          /\ initReturned' = "true"
       \/ /\ InvokeReturning(initializeSessionCatch, "false")
          /\ UNCHANGED <<sttServiceSession, adapter, closeCalls>>
    /\ UNCHANGED <<modelInfo, sttIsListening, currentTranscription, closeSessionPc,
                   sinceFinal>>

\* startListening, when it neither throws nor finds the service listening
StartListening ==
    /\ sttServiceSession
    /\ ~sttIsListening
    /\ sttIsListening' = TRUE
    /\ currentTranscription' = <<>>
    /\ sinceFinal' = <<>>
    /\ Invoke(<<Status("listening")>>)
    /\ UNCHANGED <<modelInfo, sttServiceSession, adapter, initPc, closeSessionPc,
                   closeCalls>>

\* stopListening, when the service is listening
StopListening ==
    /\ sttIsListening
    /\ sttIsListening' = FALSE
    /\ Invoke(<<Status("stopped")>>)
    /\ UNCHANGED <<modelInfo, sttServiceSession, currentTranscription, adapter, initPc,
                   closeSessionPc, closeCalls, sinceFinal>>

\* The text received since the last final or turn-complete, once the
\* message is counted in.
SinceFinal(provider, since, message) ==
    IF provider = "gemini"
    THEN IF message.turnComplete THEN <<>>
         ELSE IF Trim(message.text) = <<>> \/ Trim(message.text) = <<GeminiNoise>>
         THEN since
         ELSE since \o message.text
    ELSE IF provider = "openai"
    THEN IF message.type = "delta" THEN since \o message.text
         ELSE IF message.type = "completed" /\ Trim(message.text) # <<>> THEN <<>>
         ELSE since
    ELSE since

\* callbacks.onmessage: the adapter delivers one raw message
OnMessage ==
    /\ adapter = "open"
    /\ \E provider \in Providers : \E message \in Messages(provider) :
          /\ modelInfo \in {provider, "none"}
          /\ Len(currentTranscription) + Len(message.text) <= MaxAccum
          /\ lastMessage' = message
          /\ initReturned' = "none"
          /\ IF modelInfo = "none"
             THEN calls' = <<>> /\ UNCHANGED <<currentTranscription, sinceFinal>>
             ELSE LET h == handleMessage(modelInfo, currentTranscription, message)
                  IN  /\ currentTranscription' = h.currentTranscription
                      /\ calls' = h.calls
                      /\ sinceFinal' = SinceFinal(modelInfo, sinceFinal, message)
    /\ UNCHANGED <<modelInfo, sttServiceSession, sttIsListening, adapter, initPc,
                   closeSessionPc, closeCalls, disconnected>>

\* callbacks.onerror: a transport error of the adapter
OnError ==
    /\ adapter = "open"
    /\ Invoke(<<Error>>)
    /\ UNCHANGED <<modelInfo, sttServiceSession, sttIsListening, currentTranscription,
                   adapter, initPc, closeSessionPc, closeCalls, sinceFinal>>

\* callbacks.onclose: the connection closed, by the far end or because
\* closeSession asked for it
OnClose ==
    /\ adapter = "open"
    /\ adapter' = "closed"
    /\ sttIsListening' = FALSE
    /\ Invoke(<<Status("disconnected")>>)
    /\ UNCHANGED <<modelInfo, sttServiceSession, currentTranscription, initPc,
                   closeSessionPc, closeCalls, sinceFinal>>

\* closeSession: the assignments after the session was closed, or was null
CloseSessionReset ==
    /\ sttServiceSession' = FALSE
    /\ sttIsListening' = FALSE
    /\ currentTranscription' = <<>>
    /\ sinceFinal' = <<>>
    /\ modelInfo' = "none"
    /\ Invoke(<<Status("disconnected")>>)

\* closeSession is called: with a session it awaits sttSession.close(),
\* without one it runs to its end
CloseSession ==
    /\ closeSessionPc = "idle"
    /\ initPc = "idle"
    /\ closeCalls < MaxCloseCalls
    /\ closeCalls' = closeCalls + 1
    /\ IF sttServiceSession
       THEN /\ closeSessionPc' = "close"
            /\ Invoke(<<>>)
            /\ UNCHANGED <<modelInfo, sttServiceSession, sttIsListening,
                           currentTranscription, sinceFinal>>
       ELSE /\ CloseSessionReset
            /\ UNCHANGED closeSessionPc
    /\ UNCHANGED <<adapter, initPc>>

\* closeSession: sttSession.close() resolved, or rejected and left the
\* connection as it was
CloseSessionClosed ==
    /\ closeSessionPc = "close"
    /\ closeSessionPc' = "idle"
    /\ adapter' \in {adapter, "closed"}
    /\ CloseSessionReset
    /\ UNCHANGED <<initPc, closeCalls>>

SttNext ==
    \/ InitializeSession
    \/ CreateSTT
    \/ StartListening
    \/ StopListening
    \/ OnMessage
    \/ OnError
    \/ OnClose
    \/ CloseSession
    \/ CloseSessionClosed

(***************************************************************************)
(* AskAudioCaptureVAD: conversation mode                                   *)
(***************************************************************************)

MaxSpeechBuffer == 3

VadInit ==
    /\ vad = FALSE
    /\ isConversationMode = FALSE
    /\ isSpeaking = FALSE
    /\ isProcessing = FALSE
    /\ currentSpeechBuffer = 0
    /\ ttsPlaying = FALSE
    /\ startPc = "idle"
    /\ speechEndPc = "idle"
    /\ stopPc = "idle"
    /\ lastVad = "none"
    /\ notified = <<>>
    /\ segmentSends = 0

handleInterruptionAlways(playing) == <<"tts.stop", "onInterruption", "interrupted">>

\* handleVADSpeechStart: if (this.isAISpeaking()) this.handleInterruption()
handleInterruption(playing) ==
    IF playing THEN <<"tts.stop", "onInterruption", "interrupted">> ELSE <<>>

\* cleanup
VadCleanup ==
    /\ vad' = FALSE
    /\ isConversationMode' = FALSE
    /\ isSpeaking' = FALSE
    /\ isProcessing' = FALSE
    /\ currentSpeechBuffer' = 0

\* startConversationMode is called: it creates the VAD if there is none
StartConversationMode ==
    /\ ~isConversationMode
    /\ UNCHANGED segmentSends
    /\ startPc = "idle"
    /\ startPc' = IF vad THEN "start" ELSE "initializeVAD"
    /\ notified' = <<>>
    /\ lastVad' = "none"
    /\ UNCHANGED <<vad, isConversationMode, isSpeaking, isProcessing,
                   currentSpeechBuffer, ttsPlaying, speechEndPc, stopPc>>

\* startConversationMode: MicVAD.new resolved, or initializeVAD returned
\* false and the catch block runs cleanup
InitializeVAD ==
    /\ startPc = "initializeVAD"
    /\ UNCHANGED segmentSends
    /\ \/ /\ vad' = TRUE
          /\ startPc' = "start"
          /\ UNCHANGED <<isConversationMode, isSpeaking, isProcessing,
                         currentSpeechBuffer>>
       \/ /\ VadCleanup
          /\ startPc' = "idle"
    /\ notified' = <<>>
    /\ lastVad' = "none"
    /\ UNCHANGED <<ttsPlaying, speechEndPc, stopPc>>

\* startConversationMode: vad.start() resolved, or rejected and the catch
\* block runs cleanup
VadStarted ==
    /\ startPc = "start"
    /\ UNCHANGED segmentSends
    /\ startPc' = "idle"
    /\ \/ /\ isConversationMode' = TRUE
          /\ notified' = <<"conversationStarted">>
          /\ UNCHANGED <<vad, isSpeaking, isProcessing, currentSpeechBuffer>>
       \/ /\ VadCleanup
          /\ notified' = <<>>
    /\ lastVad' = "none"
    /\ UNCHANGED <<ttsPlaying, speechEndPc, stopPc>>

\* stopConversationMode up to the processing of what the buffer still holds
StopConversationMode ==
    /\ isConversationMode
    /\ stopPc = "idle"
    /\ isConversationMode' = FALSE
    /\ isSpeaking' = FALSE
    /\ IF currentSpeechBuffer > 0
       THEN /\ isProcessing' = TRUE
            /\ stopPc' = "sendAudioData"
            /\ notified' = <<"processingStarted">>
            /\ segmentSends' = segmentSends + 1
       ELSE /\ isProcessing' = FALSE
            /\ stopPc' = "idle"
            /\ notified' = <<"conversationEnded">>
            /\ UNCHANGED segmentSends
    /\ lastVad' = "none"
    /\ UNCHANGED <<vad, currentSpeechBuffer, ttsPlaying, startPc, speechEndPc>>

\* processSpeechSegment: sendAudioData answered with a transcript, and the
\* segment goes on to processUserMessage
Transcribed(pc) ==
    /\ pc = "sendAudioData"
    /\ UNCHANGED segmentSends
    /\ notified' = <<"onSpeechSegment">>
    /\ lastVad' = "none"
    /\ UNCHANGED <<vad, isConversationMode, isSpeaking, isProcessing,
                   currentSpeechBuffer, ttsPlaying, startPc>>

\* processSpeechSegment is about to return: sendAudioData answered without a
\* transcript or rejected, or processUserMessage is over
Returning(pc) ==
    \/ pc = "sendAudioData"
    \/ pc = "processUserMessage"

\* stopConversationMode: the transcript of the remaining speech arrived
StopTranscribed ==
    /\ Transcribed(stopPc)
    /\ stopPc' = "processUserMessage"
    /\ UNCHANGED speechEndPc

\* stopConversationMode: processSpeechSegment has returned
StopProcessed ==
    /\ Returning(stopPc)
    /\ UNCHANGED segmentSends
    /\ stopPc' = "idle"
    /\ isProcessing' = FALSE
    /\ currentSpeechBuffer' = 0
    /\ notified' = <<"processingEnded", "conversationEnded">>
    /\ lastVad' = "none"
    /\ UNCHANGED <<vad, isConversationMode, isSpeaking, ttsPlaying, startPc, speechEndPc>>

\* handleVADSpeechStart
VADSpeechStart ==
    /\ vad
    /\ UNCHANGED segmentSends
    /\ lastVad' = "speechStart"
    /\ IF ~isConversationMode
       THEN /\ notified' = <<>>
            /\ UNCHANGED <<isSpeaking, currentSpeechBuffer, ttsPlaying>>
       ELSE /\ currentSpeechBuffer' = 0
            /\ isSpeaking' = TRUE
            /\ notified' = handleInterruption(ttsPlaying)
                              \o <<"onSpeechStart", "speechStarted", "onVoiceActivity">>
            /\ ttsPlaying' = FALSE
    /\ UNCHANGED <<vad, isConversationMode, isProcessing, startPc, speechEndPc, stopPc>>

\* handleVADSpeechEnd(audio) up to the await of processSpeechSegment
VADSpeechEnd ==
    /\ vad
    /\ speechEndPc = "idle"
    /\ lastVad' = "speechEnd"
    /\ IF ~isConversationMode
       THEN /\ notified' = <<>>
            /\ segmentSends' = 0
            /\ UNCHANGED <<isSpeaking, isProcessing, currentSpeechBuffer, speechEndPc>>
       ELSE \E audio \in 1..(MaxSpeechBuffer - currentSpeechBuffer) :
            /\ segmentSends' = 1
            /\ isSpeaking' = FALSE
            /\ currentSpeechBuffer' = currentSpeechBuffer + audio
            /\ isProcessing' = TRUE
            /\ speechEndPc' = "sendAudioData"
            /\ notified' = <<"processingStarted">>
    /\ UNCHANGED <<vad, isConversationMode, ttsPlaying, startPc, stopPc>>

\* handleVADSpeechEnd: processSpeechSegment has returned
SpeechEndProcessed ==
    /\ Returning(speechEndPc)
    /\ UNCHANGED segmentSends
    /\ speechEndPc' = "idle"
    /\ isProcessing' = FALSE
    /\ currentSpeechBuffer' = 0
    /\ notified' = <<"processingEnded", "onSpeechEnd", "speechEnded", "onVoiceActivity">>
    /\ lastVad' = "none"
    /\ UNCHANGED <<vad, isConversationMode, isSpeaking, ttsPlaying, startPc, stopPc>>

\* handleVADSpeechEnd: the transcript of the segment arrived
SpeechEndTranscribed ==
    /\ Transcribed(speechEndPc)
    /\ speechEndPc' = "processUserMessage"
    /\ UNCHANGED stopPc

\* The assistant's speech starts or ends playing.
TtsPlayback ==
    /\ ttsPlaying' = ~ttsPlaying
    /\ UNCHANGED segmentSends
    /\ notified' = <<>>
    /\ lastVad' = "none"
    /\ UNCHANGED <<vad, isConversationMode, isSpeaking, isProcessing,
                   currentSpeechBuffer, startPc, speechEndPc, stopPc>>

VadNext ==
    \/ StartConversationMode
    \/ InitializeVAD
    \/ VadStarted
    \/ StopConversationMode
    \/ StopTranscribed
    \/ StopProcessed
    \/ VADSpeechStart
    \/ VADSpeechEnd
    \/ SpeechEndTranscribed
    \/ SpeechEndProcessed
    \/ TtsPlayback

(***************************************************************************)
(* AskService voice input, over AskSttService                              *)
(***************************************************************************)

VoiceReturn(op, success) == [op |-> op, success |-> success]

NoVoiceReturn == VoiceReturn("none", FALSE)

\* Sessions that startVoiceInput is followed to leave behind.
MaxOrphaned == 2

VoiceInit ==
    /\ voicePc = "idle"
    /\ voiceReturned = NoVoiceReturn
    /\ orphaned = 0

\* The adapter sessions createSTT has made that are still open.
OpenSessions == orphaned + (IF adapter = "open" THEN 1 ELSE 0)

\* The callbacks AskService registers with setCallbacks, applied to its
\* state: onError and onTranscriptionComplete clear isListening.
AskCallbacks(st, cs) ==
    IF \E i \in 1..Len(cs) : cs[i].cb \in {"onError", "onTranscriptionComplete"}
    THEN [st EXCEPT !.isListening = FALSE]
    ELSE st

\* A step in which the speech-to-text service is not entered.
SttIdle ==
    /\ Invoke(<<>>)
    /\ UNCHANGED <<modelInfo, sttServiceSession, sttIsListening, currentTranscription,
                   adapter, initPc, closeSessionPc, closeCalls, sinceFinal>>

\* What a voice call or an adapter event leaves alone in AskService.
VoiceOnly ==
    /\ sent' = {}
    /\ returned' = NoReturn
    /\ UNCHANGED <<abortController, turns, closePc>>

\* startVoiceInput is called: it returns at once when the state says
\* listening, and otherwise runs initializeSession up to its first await
\* that resolves later (or to the end of its catch block)
StartVoiceInputCall ==
    /\ voicePc = "idle"
    /\ UNCHANGED orphaned
    /\ closePc = "idle"
    /\ closedClean' = FALSE
    /\ VoiceOnly
    /\ IF state.isListening
       THEN /\ SttIdle
            /\ voiceReturned' = VoiceReturn("startVoiceInput", FALSE)
            /\ UNCHANGED <<state, voicePc>>
       ELSE /\ InitializeSessionWhen(OpenSessions <= MaxOrphaned)
            /\ state' = AskCallbacks(state, calls')
            /\ IF initReturned' = "false"
               THEN /\ voiceReturned' = VoiceReturn("startVoiceInput", FALSE)
                    /\ UNCHANGED voicePc
               ELSE /\ voiceReturned' = NoVoiceReturn
                    /\ voicePc' = "initializeSession"

\* startVoiceInput: initializeSession comes back from createSTT and returns
VoiceInitialized ==
    /\ voicePc = "initializeSession"
    /\ closePc = "idle"
    /\ VoiceOnly
    /\ UNCHANGED closedClean
    /\ CreateSTT
    /\ orphaned' = IF adapter = "open" /\ initReturned' = "true"
                   THEN orphaned + 1 ELSE orphaned
    /\ state' = AskCallbacks(state, calls')
    /\ IF initReturned' = "true"
       THEN /\ voicePc' = "startListening"
            /\ voiceReturned' = NoVoiceReturn
       ELSE /\ voicePc' = "idle"
            /\ voiceReturned' = VoiceReturn("startVoiceInput", FALSE)

\* startVoiceInput: startListening and the state update, or the catch block
\* when startListening throws for want of a session
VoiceStartListening ==
    /\ voicePc = "startListening"
    /\ UNCHANGED orphaned
    /\ voicePc' = "idle"
    /\ VoiceOnly
    /\ UNCHANGED closedClean
    /\ IF sttServiceSession
       THEN /\ IF sttIsListening THEN SttIdle ELSE StartListening
            /\ state' = [state EXCEPT !.isListening = TRUE, !.sttTranscription = FALSE]
            /\ voiceReturned' = VoiceReturn("startVoiceInput", TRUE)
       ELSE /\ SttIdle
            /\ state' = [state EXCEPT !.isListening = FALSE]
            /\ voiceReturned' = VoiceReturn("startVoiceInput", FALSE)

\* stopVoiceInput
StopVoiceInput ==
    /\ voicePc # "startListening"
    /\ UNCHANGED orphaned
    /\ closePc = "idle"
    /\ VoiceOnly
    /\ UNCHANGED closedClean
    /\ IF state.isListening
       THEN /\ IF sttIsListening THEN StopListening ELSE SttIdle
            /\ state' = [state EXCEPT !.isListening = FALSE]
            /\ voiceReturned' = VoiceReturn("stopVoiceInput", TRUE)
       ELSE /\ SttIdle
            /\ voiceReturned' = VoiceReturn("stopVoiceInput", FALSE)
            /\ UNCHANGED state
    /\ UNCHANGED voicePc

\* An event of the adapter reaches the service, and through its callbacks
\* AskService.
VoiceAdapterEvent ==
    /\ voicePc # "startListening"
    /\ UNCHANGED orphaned
    /\ closePc = "idle"
    /\ VoiceOnly
    /\ UNCHANGED closedClean
    /\ OnError \/ OnClose
    /\ state' = AskCallbacks(state, calls')
    /\ voiceReturned' = NoVoiceReturn
    /\ UNCHANGED voicePc

\* closeAskWindow is called: when the state says listening it enters
\* stopVoiceInput, whose stopListening runs before the first await resumes
VoiceCloseAskWindow ==
    /\ voicePc # "startListening"
    /\ UNCHANGED orphaned
    /\ IF state.isListening /\ sttIsListening THEN StopListening ELSE SttIdle
    /\ CloseAskWindow
    /\ UNCHANGED voicePc
    /\ voiceReturned' = NoVoiceReturn

\* closeAskWindow: its steps after the call
VoiceClosing ==
    /\ CloseStopVoiceInput \/ CloseReset
    /\ SttIdle
    /\ UNCHANGED <<voicePc, orphaned>>
    /\ voiceReturned' = NoVoiceReturn

VoiceNext ==
    \/ StartVoiceInputCall
    \/ VoiceInitialized
    \/ VoiceStartListening
    \/ StopVoiceInput
    \/ VoiceAdapterEvent
    \/ VoiceCloseAskWindow
    \/ VoiceClosing

(***************************************************************************)
(* AskAudioCapture: acquisition and release of the microphone              *)
(***************************************************************************)

\* startCapture calls followed, and chunks followed per capture.
MaxStarts == 2
MaxDeviceChunks == 3

StartCalls == 1..MaxStarts

DeviceInit ==
    /\ mediaStream = 0
    /\ audioContext = 0
    /\ audioProcessor = 0
    /\ liveStreams = {}
    /\ liveContexts = {}
    /\ connected = {}
    /\ startCapturePc = [p \in StartCalls |-> "idle"]
    /\ startReturned = 0

\* The fields of the device as a record, so that cleanup composes.
Device(stream, context, processor, streams, contexts, procs) ==
    [mediaStream |-> stream, audioContext |-> context, audioProcessor |-> processor,
     liveStreams |-> streams, liveContexts |-> contexts, connected |-> procs]

CurrentDevice == Device(mediaStream, audioContext, audioProcessor, liveStreams,
                        liveContexts, connected)

InstallDevice(d) ==
    /\ mediaStream' = d.mediaStream
    /\ audioContext' = d.audioContext
    /\ audioProcessor' = d.audioProcessor
    /\ liveStreams' = d.liveStreams
    /\ liveContexts' = d.liveContexts
    /\ connected' = d.connected

\* cleanup: the processor, the context and the stream the fields refer to
\* are disconnected, closed and stopped, and the fields set to null
cleanupDevice(d) ==
    Device(0, 0, 0,
           d.liveStreams \ {d.mediaStream},
           d.liveContexts \ {d.audioContext},
           {c \in d.connected : c.processor # d.audioProcessor})

\* The segmentation fields stay as they are, and no chunk was handled.
SegmentationIdle(result) ==
    /\ Install(Current)
    /\ lastFrame' = "none"
    /\ lastCall' = Called("startCapture", result)

\* startCapture: the catch block, which runs cleanup and returns false
StartCaptureCatch(p, d) ==
    /\ InstallDevice(cleanupDevice(d))
    /\ Install(cleanup(Current))
    /\ lastFrame' = "none"
    /\ lastCall' = Called("startCapture", "false")
    /\ startCapturePc' = [startCapturePc EXCEPT ![p] = "done"]
    /\ startReturned' = p
    /\ UNCHANGED isCapturing

\* startCapture is called: it returns false when isCapturing is set, and
\* otherwise awaits initializeVAD
StartCaptureCall(p) ==
    /\ startCapturePc[p] = "idle"
    /\ \A q \in StartCalls : q < p => startCapturePc[q] # "idle"
    /\ IF isCapturing
       THEN /\ startCapturePc' = [startCapturePc EXCEPT ![p] = "done"]
            /\ startReturned' = p
            /\ SegmentationIdle("false")
       ELSE /\ startCapturePc' = [startCapturePc EXCEPT ![p] = "initializeVAD"]
            /\ startReturned' = 0
            /\ SegmentationIdle("undefined")
    /\ InstallDevice(CurrentDevice)
    /\ UNCHANGED isCapturing

\* startCapture: initializeVAD came back (with the Speex detector or with
\* the fallback), and getUserMedia is requested
VadInitialized(p) ==
    /\ startCapturePc[p] = "initializeVAD"
    /\ startCapturePc' = [startCapturePc EXCEPT ![p] = "getUserMedia"]
    /\ startReturned' = 0
    /\ SegmentationIdle("undefined")
    /\ InstallDevice(CurrentDevice)
    /\ UNCHANGED isCapturing

\* startCapture: getUserMedia resolved with a stream and the AudioContext
\* is made (or its constructor throws), or getUserMedia rejected
GotUserMedia(p) ==
    /\ startCapturePc[p] = "getUserMedia"
    /\ LET given == [CurrentDevice EXCEPT !.mediaStream = p,
                                          !.liveStreams = @ \cup {p}]
           made == [given EXCEPT !.audioContext = p, !.liveContexts = @ \cup {p}]
       IN  \/ StartCaptureCatch(p, CurrentDevice)
           \/ StartCaptureCatch(p, given)
           \/ /\ InstallDevice(made)
              /\ startCapturePc' = [startCapturePc EXCEPT ![p] = "resume"]
              /\ startReturned' = 0
              /\ SegmentationIdle("undefined")
              /\ UNCHANGED isCapturing

\* startCapture: audioContext.resume() came back; the source and the script
\* processor are made on the context and the stream the fields refer to
\* now, and connected, unless one of these calls throws
Resumed(p) ==
    /\ startCapturePc[p] = "resume"
    /\ \/ StartCaptureCatch(p, CurrentDevice)
       \/ /\ audioContext # 0
          /\ mediaStream # 0
          /\ InstallDevice([CurrentDevice EXCEPT
                  !.audioProcessor = p,
                  !.connected = @ \cup {[processor |-> p, context |-> audioContext]}])
          /\ isCapturing' = TRUE
          /\ startCapturePc' = [startCapturePc EXCEPT ![p] = "done"]
          /\ startReturned' = p
          /\ SegmentationIdle("true")

\* stopCapture, with the release of the device
DeviceStopCapture ==
    /\ StopCapture
    /\ InstallDevice(IF isCapturing THEN cleanupDevice(CurrentDevice) ELSE CurrentDevice)
    /\ startReturned' = 0
    /\ UNCHANGED startCapturePc

\* onaudioprocess of a processor that is connected in an open context
DeviceProcessChunk ==
    /\ \E c \in connected : c.context \in liveContexts
    /\ currentSegment < MaxDeviceChunks * samplesPerChunk
    /\ \E hasVoice \in BOOLEAN :
          /\ Install(handleVoiceSegment(Current, hasVoice))
          /\ lastFrame' = IF hasVoice THEN "voice" ELSE "silence"
    /\ lastCall' = Called("onaudioprocess", "undefined")
    /\ InstallDevice(CurrentDevice)
    /\ startReturned' = 0
    /\ UNCHANGED <<isCapturing, startCapturePc>>

DeviceNext ==
    \/ DeviceStopCapture
    \/ DeviceProcessChunk
    \/ \E p \in StartCalls :
          \/ StartCaptureCall(p)
          \/ VadInitialized(p)
          \/ GotUserMedia(p)
          \/ Resumed(p)

(***************************************************************************)
(* AskAudioCapture: PCM16 and base64 encoding of a chunk                   *)
(***************************************************************************)

\* Longest chunk followed, in samples.
MaxSamples == 2

\* A Float32 sample x is the integer x * Denominator.
Denominator == 1000

Floats == {-1500, -1001, -1000, -999, -500, -1, 0, 1, 333, 500, 999, 1000, 1001, 1500}

Chunks == UNION {[1..n -> Floats] : n \in 0..MaxSamples}

PcmInit ==
    /\ float32Array = <<>>
    /\ int16Array = <<>>
    /\ base64Data = <<>>
    /\ decoded = <<>>
    /\ pcmPc = "idle"

ClampNone(x) == x

\* Math.max(-1, Math.min(1, x))
Clamp(x) ==
    IF x > Denominator THEN Denominator
    ELSE IF x < -Denominator THEN -Denominator
    ELSE x

\* The integer part of a / b, towards zero (b > 0).
Truncate(a, b) == IF a >= 0 THEN a \div b ELSE -((-a) \div b)

\* Storing a number into an Int16Array element: its integer part modulo
\* 2^16, read as a signed 16-bit value.
ToInt16(a, b) ==
    LET u == Truncate(a, b) % 65536
    IN  IF u >= 32768 THEN u - 65536 ELSE u

\* convertFloat32ToInt16, one sample: s < 0 ? s * 0x8000 : s * 0x7fff
convertSample(x) ==
    LET sample == Clamp(x)
    IN  IF sample < 0 THEN ToInt16(sample * 32768, Denominator)
        ELSE ToInt16(sample * 32767, Denominator)

\* convertFloat32ToInt16
convertFloat32ToInt16(chunk) == [i \in 1..Len(chunk) |-> convertSample(chunk[i])]

\* new Uint8Array(pcm16.buffer): two bytes per sample, low byte first
Uint8Array(samples) ==
    [i \in 1..(2 * Len(samples)) |->
        LET u == samples[(i + 1) \div 2] % 65536
        IN  IF i % 2 = 1 THEN u % 256 ELSE u \div 256]

\* The padding character '=' among the base64 digits 0..63.
Pad == 64

RECURSIVE btoa(_)
\* btoa(binary), binary being the string of the characters with the byte
\* values as their codes
btoa(bytes) ==
    IF Len(bytes) = 0 THEN <<>>
    ELSE IF Len(bytes) = 1
    THEN <<bytes[1] \div 4, (bytes[1] % 4) * 16, Pad, Pad>>
    ELSE IF Len(bytes) = 2
    THEN <<bytes[1] \div 4, (bytes[1] % 4) * 16 + bytes[2] \div 16,
           (bytes[2] % 16) * 4, Pad>>
    ELSE <<bytes[1] \div 4, (bytes[1] % 4) * 16 + bytes[2] \div 16,
           (bytes[2] % 16) * 4 + bytes[3] \div 64, bytes[3] % 64>>
         \o btoa(SubSeq(bytes, 4, Len(bytes)))

\* arrayBufferToBase64
arrayBufferToBase64(samples) == btoa(Uint8Array(samples))

RECURSIVE FromBase64(_)
\* Buffer.from(data, 'base64'): the bytes of a base64 string
FromBase64(digits) ==
    IF Len(digits) < 4 THEN <<>>
    ELSE LET b1 == digits[1] * 4 + digits[2] \div 16
             b2 == (digits[2] % 16) * 16 + digits[3] \div 4
             b3 == (digits[3] % 4) * 64 + digits[4]
         IN  IF digits[3] = Pad THEN <<b1>>
             ELSE IF digits[4] = Pad THEN <<b1, b2>>
             ELSE <<b1, b2, b3>> \o FromBase64(SubSeq(digits, 5, Len(digits)))

\* The bytes read as signed 16-bit samples, low byte first.
Int16Samples(bytes) ==
    [i \in 1..(Len(bytes) \div 2) |->
        LET u == bytes[2 * i - 1] + 256 * bytes[2 * i]
        IN  IF u >= 32768 THEN u - 65536 ELSE u]

\* onaudioprocess / sendVoiceSegmentToSTT: a chunk is converted to PCM16
ConvertChunk ==
    /\ pcmPc = "idle"
    /\ \E chunk \in Chunks :
          /\ float32Array' = chunk
          /\ int16Array' = convertFloat32ToInt16(chunk)
    /\ pcmPc' = "pcm16"
    /\ UNCHANGED <<base64Data, decoded>>

\* ... and its buffer to base64, which is what sendAudioData is given
EncodeChunk ==
    /\ pcmPc = "pcm16"
    /\ base64Data' = arrayBufferToBase64(int16Array)
    /\ pcmPc' = "base64"
    /\ UNCHANGED <<float32Array, int16Array, decoded>>

\* The receiver reads the samples back.
DecodeChunk ==
    /\ pcmPc = "base64"
    /\ decoded' = Int16Samples(FromBase64(base64Data))
    /\ pcmPc' = "decoded"
    /\ UNCHANGED <<float32Array, int16Array, base64Data>>

PcmNext ==
    \/ ConvertChunk
    \/ EncodeChunk
    \/ DecodeChunk

(***************************************************************************)
(* TTSService (features/voice/ttsServiceSave.js): the audio cache.         *)
(* A speak call is two steps around its await of generateSpeech, and one   *)
(* call awaits it at a time.  Voice, model, speed and provider are the     *)
(* defaults, so the cache key is determined by the text.  Texts are        *)
(* numbered in the order in which they are first cached; a text whose      *)
(* entry is gone is the same as a new text for the cache, so speak is      *)
(* called with a cached text or with the next new one, and the texts it is *)
(* called with again are among the first MaxRepeated ones.  Calls with     *)
(* cache: false neither read nor write the cache and are left out.         *)
(***************************************************************************)
maxCacheSize == 100

MaxEvictions == 2
MaxHits == 1
MaxRepeated == 2

SpeakTexts == 1..(maxCacheSize + MaxEvictions)

TtsInit ==
    /\ audioCache = <<>>
    /\ generating = 0
    /\ lastUsed = <<>>
    /\ hits = 0

Keys(cache) == {cache[i] : i \in 1..Len(cache)}

Without(seq, k) == SelectSeq(seq, LAMBDA x : x # k)

\* the key becomes the most recently used one
Use(order, k) == Append(Without(order, k), k)

getCacheKey(text) == text

NewText == IF audioCache = <<>> THEN 1 ELSE audioCache[Len(audioCache)] + 1

\* Map.keys().next().value is the oldest insertion; Map.set of a present key
\* keeps its place
cacheAudio(cache, key) ==
    LET kept == IF Len(cache) >= maxCacheSize THEN Tail(cache) ELSE cache
    IN  IF key \in Keys(kept) THEN kept ELSE Append(kept, key)

\* speak, lines 130-134: the key is cached, the cached audio is played
SpeakCached(text) ==
    /\ hits < MaxHits
    /\ getCacheKey(text) \in Keys(audioCache)
    /\ lastUsed' = Use(lastUsed, getCacheKey(text))
    /\ hits' = hits + 1
    /\ UNCHANGED <<audioCache, generating>>

\* speak, lines 130-142: the key is not cached, generateSpeech is awaited
SpeakGenerate(text) ==
    /\ generating = 0
    /\ getCacheKey(text) \notin Keys(audioCache)
    /\ generating' = getCacheKey(text)
    /\ UNCHANGED <<audioCache, lastUsed, hits>>

Speak ==
    \E text \in SpeakTexts :
        /\ \/ text \in Keys(audioCache) /\ text <= MaxRepeated
           \/ text = NewText
        /\ \/ SpeakCached(text)
           \/ SpeakGenerate(text)

\* speak, lines 144-154: generateSpeech returned a buffer, which is cached
\* and played
Generated ==
    /\ generating # 0
    /\ audioCache' = cacheAudio(audioCache, generating)
    /\ lastUsed' = SelectSeq(Use(lastUsed, generating),
                             LAMBDA k : k \in Keys(audioCache'))
    /\ generating' = 0
    /\ UNCHANGED hits

\* speak, lines 144-146 and 156-159: generateSpeech failed or returned
\* nothing, speak throws
GenerateFailed ==
    /\ generating # 0
    /\ generating' = 0
    /\ UNCHANGED <<audioCache, lastUsed, hits>>

\* clearCache, lines 389-392
ClearCache ==
    /\ audioCache # <<>>
    /\ audioCache' = <<>>
    /\ lastUsed' = <<>>
    /\ UNCHANGED <<generating, hits>>

TtsNext ==
    \/ Speak
    \/ Generated
    \/ GenerateFailed
    \/ ClearCache

(***************************************************************************)
(* AskService: reading a server-sent event stream.  The loop of            *)
(* _processStream and the loop of _generateConversationalResponseInParallel*)
(* differ in what 'data: [DONE]' does.  The body of the response is a      *)
(* sequence of pieces of text; reader.read() delivers any number of the    *)
(* pieces that are left, so a chunk can end between any two pieces of a    *)
(* line.  A piece is never split, and read errors are not followed here.   *)
(***************************************************************************)
MaxFrames == 3

DataPrefix == "data: "
Newline == "\n"
DoneMark == "[DONE]"
JsonOpen == "{choices:[{delta:{content:"
JsonClose == "}}]}"

\* The content of a delta; the empty one stands for a frame without content.
Deltas == {"", "a", "b"}

FrameKinds == Deltas \cup {DoneMark}

\* the text of one frame, a data line and a blank line
FrameText(frame) ==
    IF frame = DoneMark
    THEN <<DataPrefix, DoneMark, Newline, Newline>>
    ELSE <<DataPrefix, JsonOpen, frame, JsonClose, Newline, Newline>>

RECURSIVE BodyText(_)
BodyText(fs) == IF fs = <<>> THEN <<>> ELSE FrameText(Head(fs)) \o BodyText(Tail(fs))

Streams == UNION {[1..n -> FrameKinds] : n \in 1..MaxFrames}

SseInit ==
    /\ loop = "none"
    /\ frames = <<>>
    /\ body = <<>>
    /\ accumulated = <<>>
    /\ streamPc = "idle"

RECURSIVE SplitLines(_)
\* chunk.split('\n')
SplitLines(chunk) ==
    IF \A i \in 1..Len(chunk) : chunk[i] # Newline
    THEN <<chunk>>
    ELSE LET i == CHOOSE n \in 1..Len(chunk) :
                      chunk[n] = Newline /\ \A j \in 1..(n - 1) : chunk[j] # Newline
         IN  <<SubSeq(chunk, 1, i - 1)>> \o SplitLines(SubSeq(chunk, i + 1, Len(chunk)))

\* .filter(line => line.trim() !== '')
Lines(chunk) == SelectSeq(SplitLines(chunk), LAMBDA line : line # <<>>)

\* JSON.parse(data) returns, and does not throw
IsJson(data) ==
    Len(data) = 3 /\ data[1] = JsonOpen /\ data[2] \in Deltas /\ data[3] = JsonClose

\* json.choices[0]?.delta?.content || '', and '' when JSON.parse throws into
\* the empty catch block
Token(data) == IF IsJson(data) THEN data[2] ELSE ""

RECURSIVE ProcessLines(_, _)
\* for (const line of lines): the text accumulated, and whether the loop
\* was left at 'data: [DONE]'
ProcessLines(lines, text) ==
    IF lines = <<>> THEN [text |-> text, done |-> FALSE]
    ELSE LET line == Head(lines)
             data == Tail(line)
         IN  IF Head(line) # DataPrefix THEN ProcessLines(Tail(lines), text)
             ELSE IF data = <<DoneMark>> THEN [text |-> text, done |-> TRUE]
             ELSE ProcessLines(Tail(lines),
                               IF Token(data) # "" THEN Append(text, Token(data))
                               ELSE text)

\* streamChat resolved with a response whose body is read by one of the two
\* loops
StreamOpened ==
    /\ streamPc = "idle"
    /\ loop' \in {"primary", "parallel"}
    /\ frames' \in Streams
    /\ body' = BodyText(frames')
    /\ accumulated' = <<>>
    /\ streamPc' = "reading"

\* await reader.read() delivered a chunk. At 'data: [DONE]' _processStream
\* returns, and the parallel generation leaves the for loop only.
ReadChunk ==
    /\ streamPc = "reading"
    /\ \E n \in 1..Len(body) :
          LET chunk == SubSeq(body, 1, n)
              read == ProcessLines(Lines(chunk), accumulated)
          IN  /\ accumulated' = read.text
              /\ body' = SubSeq(body, n + 1, Len(body))
              /\ streamPc' = IF read.done /\ loop = "primary" THEN "returned"
                             ELSE "reading"
    /\ UNCHANGED <<loop, frames>>

\* await reader.read() answered done: the loop is left
ReadDone ==
    /\ streamPc = "reading"
    /\ body = <<>>
    /\ streamPc' = "returned"
    /\ UNCHANGED <<loop, frames, body, accumulated>>

SseNext ==
    \/ StreamOpened
    \/ ReadChunk
    \/ ReadDone

Init ==
    /\ AskInit /\ CaptureInit /\ SttInit /\ VadInit /\ VoiceInit /\ DeviceInit
    /\ PcmInit /\ TtsInit /\ SseInit

Next == AskNext /\ UNCHANGED <<captureVars, sttVars, vadVars, voiceVars, deviceVars,
                               pcmVars, ttsVars, sseVars>>

\* AskService under every interleaving of its calls and callbacks
Spec == Init /\ [][Next]_vars

NextText == TextNext /\ UNCHANGED <<captureVars, sttVars, vadVars, voiceVars, deviceVars,
                               pcmVars, ttsVars, sseVars>>

\* AskService with typed questions only (no speech-to-text session)
SpecText == Init /\ [][NextText]_vars

NextCapture == CaptureNext /\ UNCHANGED <<askVars, sttVars, vadVars, voiceVars, deviceVars,
                               pcmVars, ttsVars, sseVars>>

\* AskAudioCapture
SpecCapture == Init /\ [][NextCapture]_vars

NextStt == SttNext /\ UNCHANGED <<askVars, captureVars, vadVars, voiceVars, deviceVars,
                               pcmVars, ttsVars, sseVars>>

\* AskSttService with its adapter
SpecStt == Init /\ [][NextStt]_vars

NextVad == VadNext /\ UNCHANGED <<askVars, captureVars, sttVars, voiceVars, deviceVars,
                               pcmVars, ttsVars, sseVars>>

\* AskAudioCaptureVAD in conversation mode
SpecVad == Init /\ [][NextVad]_vars

NextDevice == DeviceNext /\ UNCHANGED <<askVars, sttVars, vadVars, voiceVars, pcmVars,
                                           ttsVars, sseVars>>

\* AskAudioCapture with overlapping startCapture calls
SpecDevice == Init /\ [][NextDevice]_vars

NextPcm ==
    /\ PcmNext
    /\ UNCHANGED <<askVars, captureVars, sttVars, vadVars, voiceVars, deviceVars,
                   ttsVars, sseVars>>

\* The encoding of chunks drawn from Chunks
SpecPcm == Init /\ [][NextPcm]_vars

NextVoice ==
    /\ VoiceNext
    /\ UNCHANGED <<askWinAvailable, sttSession, captureVars, vadVars, deviceVars,
                   pcmVars, ttsVars, sseVars>>

\* The voice input calls of AskService, with AskSttService and its adapter
SpecVoice == Init /\ [][NextVoice]_vars

NextTts ==
    /\ TtsNext
    /\ UNCHANGED <<askVars, captureVars, sttVars, vadVars, voiceVars, deviceVars,
                   pcmVars, sseVars>>

\* The audio cache of TTSService under overlapping speak calls
SpecTts == Init /\ [][NextTts]_vars

NextSse ==
    /\ SseNext
    /\ UNCHANGED <<askVars, captureVars, sttVars, vadVars, voiceVars, deviceVars,
                   pcmVars, ttsVars>>

\* The two loops that read a streamed response
SpecSse == Init /\ [][NextSse]_vars

(***************************************************************************)
(* Claims                                                                  *)
(***************************************************************************)

ErrorEvent(t) == [event |-> "ask-response-stream-error", turn |-> t]

ConversationalEvent(t) == [event |-> "ask:conversationalResponse", turn |-> t]

\* Streams that are open and whose reader nobody cancelled.
LiveStreams(ts) == {t \in Turns : ts[t].pc = "reading" /\ ~ts[t].readerCancelled}

\* A newer sendMessage has started since turn t started.
Superseded(ts, t) == \E b \in Turns : b > t /\ ts[b].pc # "idle"

\* C1: at most one primary model stream is live at a time, and once a newer
\* sendMessage has started, wherever the older turn was in its lifecycle,
\* the older turn never appends another token to state.currentResponse.
C1_SinglePrimaryStream ==
    [][ /\ Cardinality(LiveStreams(turns')) <= 1
        /\ \A t \in Turns :
             Superseded(turns, t)
                => ~(turns'[t].fullResponse > turns[t].fullResponse)
      ]_vars

\* C2: a turn that is reading its stream, with the abort listener of
\* sendMessage installed, when a newer sendMessage starts has its reader
\* cancelled in that very step, and from then on no step writes
\* text of that turn into state.currentResponse (the finally block of
\* _processStream included).
C2_NoTextOfCancelledStream ==
    [][ \A t \in Turns :
          /\ (/\ turns[t].pc = "reading" /\ turns[t].listener
              /\ ~Superseded(turns, t) /\ Superseded(turns', t))
                => turns'[t].readerCancelled
          /\ (Superseded(turns, t) /\ turns[t].listener)
                => ~(/\ state'.currentResponse # state.currentResponse
                     /\ state'.currentResponse.turn = t)
      ]_vars

\* C3: once closeAskWindow has reset the state and every sendMessage call
\* that was in flight has returned, the state equals the defaults.
C3_CloseResetsState ==
    (closedClean /\ closePc = "idle" /\ Live = {}) => state = DefaultState

\* C4: the text-only retry is never issued by a turn whose signal is aborted.
C4_NoRetryAfterAbort ==
    [][ \A t \in Turns :
          (turns[t].pc = "streamChat" /\ turns'[t].pc = "fallbackChat")
             => ~turns[t].aborted
      ]_vars

\* The markers the claim lists.
ClaimMarkers ==
    {"vision", "image", "multimodal", "unsupported", "400", "invalid", "not supported"}

\* The model is called at most twice per turn, and the retry is pending
\* only after a failed first call that carried an image and whose message
\* contains a marker.
RetryDiscipline ==
    \A t \in Turns :
       /\ turns[t].modelCalls <= 2
       /\ turns[t].modelCalls = 2
             => turns[t].pc = "fallbackChat" \/ turns[t].call = "fallback"
       /\ turns[t].pc = "fallbackChat"
             => /\ turns[t].screenshotBase64
                /\ turns[t].error # NoError
                /\ \E m \in ClaimMarkers : m \in turns[t].error

\* The state a failed turn leaves when it returns.
TerminalFlags ==
    ~state.isLoading /\ ~state.isStreaming /\ state.showTextInput

\* sendMessage has just returned success=false because a streamChat call
\* was rejected: the first one with an error that does not qualify for the
\* retry, or the retry itself.
ModelFailure ==
    returned.result = "failure" /\ returned.cause \in {"streamChat", "fallbackChat"}

\* C5 as stated: RetryDiscipline, and a failed retry or a non-matching
\* error is terminal: the flags are reset and the error event is sent.
C5_Original ==
    /\ RetryDiscipline
    /\ ModelFailure => TerminalFlags /\ ErrorEvent(returned.turn) \in sent

\* C5 amended: RetryDiscipline, and a failed retry or a non-matching error
\* is terminal: the flags are reset, and the error event is sent if the ask
\* window is available at that moment and not sent at all otherwise.
C5_TerminalFailure ==
    /\ RetryDiscipline
    /\ ModelFailure
          => /\ TerminalFlags
             /\ askWinAvailable => ErrorEvent(returned.turn) \in sent
             /\ ~askWinAvailable => sent = {}

\* C5 witness: the text-only retry has failed and ended the turn.
C5_Witness ==
    /\ ModelFailure
    /\ returned.cause = "fallbackChat"
    /\ ErrorEvent(returned.turn) \in sent

\* C6: no turn persists more than one assistant message; and a turn alone in
\* the service, not cancelled, whose text-only retry delivers a response,
\* leaves that response in state.currentResponse when it returns, with
\* exactly one assistant message persisted if the save is accepted.
C6_FallbackResponse ==
    [][ \A t \in Turns :
          /\ turns'[t].assistantSaved <= 1
          /\ returned'.turn = t => returned'.saved <= 1
          /\ ( /\ returned'.turn = t
               /\ returned'.result = "success"
               /\ turns[t].call = "fallback"
               /\ ~turns[t].aborted
               /\ Started = {t} )
                => /\ state'.currentResponse = Resp(t, "fallback", turns[t].fullResponse)
                   /\ (turns[t].fullResponse > 0 /\ ~returned'.saveFailed)
                         => returned'.saved = 1
      ]_vars

\* C6 witness: the fallback turn has returned with its response in the
\* state and its assistant message persisted.
C6_Witness ==
    /\ returned.turn # 0
    /\ returned.result = "success"
    /\ returned.saved = 1
    /\ state.currentResponse.turn = returned.turn
    /\ state.currentResponse.call = "fallback"

\* C7: the parallel result of a turn is written to
\* state.conversationalResponse, and sent to the window, only if the turn's
\* signal is not aborted (no newer turn, no window close since it started).
C7_StaleConversationalDiscarded ==
    [][ \A t \in Turns :
          ( \/ /\ state'.conversationalResponse = t
               /\ state'.conversationalResponse # state.conversationalResponse
            \/ ConversationalEvent(t) \in sent' )
             => ~turns[t].aborted
      ]_vars

\* C8: a voice-mode turn that returns success without having been
\* superseded has merged its (non-empty) parallel result into
\* state.conversationalResponse and handed it to the window.
C8_VoiceTurnMerged ==
    [][ \A t \in Turns :
          ( /\ returned'.turn = t
            /\ returned'.result = "success"
            /\ turns[t].isVoiceMode
            /\ ~turns[t].aborted
            /\ returned'.conversational # "empty" )
             => /\ state'.conversationalResponse = t
                /\ askWinAvailable => ConversationalEvent(t) \in sent'
      ]_vars

\* C9: a persistence failure never turns the result of sendMessage into a
\* failure.
C9_PersistenceNeverFails ==
    returned.result = "failure" => returned.cause # "persistence"

\* C10: every segment passed to sendVoiceSegmentToSTT lasts at least 0.5 s,
\* and every shorter segment that is ended is dropped.
C10_NoShortSegment ==
    lastEnd.kind # "none"
       => (lastEnd.kind = "sent" <=> 2 * lastEnd.len >= SAMPLE_RATE)

\* C10 witness: stopCapture has ended a segment shorter than 0.5 s, which
\* was dropped.
C10_Witness ==
    lastEnd.kind = "dropped" /\ lastEnd.len > 0 /\ 2 * lastEnd.len < SAMPLE_RATE

\* The cap of MAX_SEGMENT_DURATION, and one chunk more, in samples.
CapSamples == (MAX_SEGMENT_DURATION * SAMPLE_RATE) \div 1000

\* C11: a run of voiced frames shorter than VOICE_THRESHOLD_FRAMES that is
\* followed by a no-voice frame starts no segment: isCurrentlyVoice stays
\* false, nothing is emitted and voiceFrameCount returns to 0; a segment
\* starts only on a voiced frame that brings the run to the threshold.
C11_NoFalseOnset ==
    [][ /\ ( /\ ~isCurrentlyVoice
             /\ voiceFrameCount < VOICE_THRESHOLD_FRAMES
             /\ lastFrame' = "silence" )
           => /\ ~isCurrentlyVoice'
              /\ voiceFrameCount' = 0
              /\ lastEnd'.kind = "none"
        /\ (~isCurrentlyVoice /\ isCurrentlyVoice')
           => /\ lastFrame' = "voice"
              /\ voiceFrameCount' = voiceFrameCount + 1
              /\ voiceFrameCount' >= 2
      ]_vars

\* C11 witness: one voiced frame, then a no-voice frame, and the engine is
\* idle with the counter back at 0 (the buffer holds exactly these two
\* chunks, so the frame before the no-voice one was voiced).
C11_Witness ==
    /\ isCapturing
    /\ lastFrame = "silence"
    /\ silenceFrameCount = 1
    /\ currentSegment = 2 * samplesPerChunk
    /\ ~isCurrentlyVoice
    /\ voiceFrameCount = 0

\* C12: in every state the segment buffer, and the segment that was just
\* ended, is no longer than the cap plus one chunk.
C12_BufferWithinCap ==
    /\ currentSegment <= CapSamples + samplesPerChunk
    /\ lastEnd.len <= CapSamples + samplesPerChunk

\* C13: a voiced frame that brings an open segment to the cap ends exactly
\* that segment, and the engine is in the voice state afterwards: the next
\* segment is open from the cut on.
C13_SegmentReopensAtCap ==
    [][ ( /\ isCurrentlyVoice
          /\ lastFrame' = "voice"
          /\ currentSegment + samplesPerChunk >= CapSamples )
        => /\ lastEnd' = [kind |-> "sent", len |-> currentSegment + samplesPerChunk]
           /\ currentSegment' = 0
           /\ isCurrentlyVoice'
      ]_vars

\* C14: when a segment opens, the buffer holds the voiced frames of the run
\* that opened it and nothing received before them.
C14_SegmentStartsAtOnset ==
    [][ (~isCurrentlyVoice /\ isCurrentlyVoice')
        => currentSegment' = voiceFrameCount' * samplesPerChunk
      ]_vars

\* The callbacks of the last step contain this one.
Invoked(cs, call) == \E i \in 1..Len(cs) : cs[i] = call

\* C15: once closeSession has been called twice on a session that was
\* created and both calls have returned, the 'disconnected' status has been
\* emitted exactly once.
C15_DisconnectedOnce ==
    (adapter # "none" /\ closeCalls = 2 /\ closeSessionPc = "idle")
       => disconnected = 1

\* The last step raised a Final event: onTranscriptionComplete was invoked.
FinalRaised == \E i \in 1..Len(calls) : calls[i].cb = "onTranscriptionComplete"

\* C16: for the whisper provider, a message whose trimmed text is exactly a
\* noise token raises no Final event, and a message whose text is a noise
\* token followed by two ordinary characters raises a Final event with
\* that text.
C16_NoiseFiltering ==
    (modelInfo = "whisper" /\ lastMessage # NoMessage)
       => \A pattern \in NoisePatterns :
            /\ Trim(lastMessage.text) = <<pattern>> => ~FinalRaised
            /\ lastMessage.text = <<pattern, "a", "b">>
                  => Invoked(calls, Complete(lastMessage.text))

\* C17: whatever the provider and the other fields of the message, a raw
\* message that carries an error field has the error callback invoked.
C17_ErrorFieldReported ==
    (modelInfo \in Providers /\ lastMessage # NoMessage /\ lastMessage.error)
       => Invoked(calls, Error)

\* C18: for the turn-based (gemini) and the delta/completed providers, an
\* interim text is exactly the text received since the last final or
\* turn-complete, and the final text of a turn-complete is the text received
\* since the one before.
C18_AccumulatorResetOnFinal ==
    [][ (modelInfo \in {"gemini", "openai"} /\ lastMessage' # NoMessage)
        => \A i \in 1..Len(calls') :
             /\ (calls'[i].cb = "onTranscriptionUpdate" /\ ~calls'[i].isFinal)
                   => calls'[i].text = sinceFinal'
             /\ (calls'[i].cb = "onTranscriptionComplete" /\ lastMessage'.turnComplete)
                   => calls'[i].text = sinceFinal
      ]_vars

\* The canonical event a callback belongs to: the final update and the
\* completion of one text are one final event.
EventKind(call) ==
    IF call.cb = "onTranscriptionUpdate" /\ ~call.isFinal THEN "interim"
    ELSE IF call.cb \in {"onTranscriptionUpdate", "onTranscriptionComplete"} THEN "final"
    ELSE IF call.cb = "onError" THEN "error"
    ELSE "status"

Events(cs) == {EventKind(cs[i]) : i \in 1..Len(cs)}

\* A message with none of the fields handleMessage looks at.
Unrecognized == Message(<<>>, FALSE, FALSE, "other", FALSE)

\* C19: handling one raw message produces at most one canonical event, and
\* a message with no recognized field invokes no callback and leaves the
\* service as it was.
C19_ZeroOrOneEvent ==
    [][ lastMessage' # NoMessage
        => /\ Cardinality(Events(calls')) <= 1
           /\ lastMessage' = Unrecognized
                 => /\ calls' = <<>>
                    /\ UNCHANGED <<modelInfo, sttServiceSession, sttIsListening,
                                   currentTranscription>>
      ]_vars

\* How many times the step raised the interruption signal.
Interruptions(ns) == Cardinality({i \in 1..Len(ns) : ns[i] = "interrupted"})

C21_StopFinalizesSegment ==
    [][ lastCall'.op = "stopCapture"
        => IF isCapturing
           THEN /\ lastEnd' =
                      IF isCurrentlyVoice
                      THEN [kind |-> IF 2 * currentSegment >= SAMPLE_RATE
                                     THEN "sent" ELSE "dropped",
                            len |-> currentSegment]
                      ELSE NoEnd
                /\ ~isCapturing'
                /\ ~isCurrentlyVoice'
                /\ currentSegment' = 0
                /\ voiceFrameCount' = 0
                /\ silenceFrameCount' = 0
           ELSE /\ lastEnd' = NoEnd
                /\ UNCHANGED <<isCapturing, currentSegment, isCurrentlyVoice,
                               voiceFrameCount, silenceFrameCount>>
      ]_vars

\* C21 witness: stopCapture has just ended and sent the segment that was in
\* progress, and the capture is released.
C21_Witness ==
    /\ lastCall.op = "stopCapture"
    /\ lastEnd.kind = "sent"
    /\ lastEnd.len > 0
    /\ ~isCapturing
    /\ currentSegment = 0

\* C22: when initializeSession fails (no model info or key, or createSTT
\* rejects) it returns false having invoked the error callback exactly once
\* and no 'ready' status, it makes no second attempt (no session is created
\* and no call stays in flight), and the startVoiceInput that called it
\* returns success = false with state.isListening false.
C22_InitFailureReported ==
    [][ initReturned' = "false"
        => /\ calls' = <<Error>>
           /\ initPc' = "idle"
           /\ UNCHANGED <<sttServiceSession, adapter, sttIsListening>>
           /\ voiceReturned' = VoiceReturn("startVoiceInput", FALSE)
           /\ ~state.isListening
           /\ ~state'.isListening
      ]_vars

\* C22 witness: createSTT has just rejected for a configured provider, and
\* startVoiceInput has returned a failure.
C22_Witness ==
    /\ initReturned = "false"
    /\ modelInfo # "none"
    /\ ~sttServiceSession
    /\ voiceReturned = VoiceReturn("startVoiceInput", FALSE)
    /\ ~state.isListening

\* C23: a startCapture call that fails after its guard returns false with
\* isCapturing false, the three device fields null, the stream and the
\* context it had acquired stopped and closed, and the segment buffer
\* empty; a call made while capturing returns false and changes nothing.
C23_StartFailureReleases ==
    [][ \A p \in StartCalls :
          (startReturned' = p /\ lastCall'.result = "false")
          => IF startCapturePc[p] = "idle"
             THEN /\ isCapturing
                  /\ UNCHANGED <<isCapturing, mediaStream, audioContext, audioProcessor,
                                 liveStreams, liveContexts, connected, currentSegment,
                                 isCurrentlyVoice, voiceFrameCount, silenceFrameCount>>
             ELSE /\ ~isCapturing'
                  /\ mediaStream' = 0
                  /\ audioContext' = 0
                  /\ audioProcessor' = 0
                  /\ p \notin liveStreams'
                  /\ p \notin liveContexts'
                  /\ currentSegment' = 0
      ]_vars

\* C24: no 'ask-response-stream-error' event is sent for a turn whose
\* cancellation signal is aborted (by a newer turn or by closeAskWindow),
\* whichever await of the turn raised the error.
C24_NoErrorForCancelledTurn ==
    [][ \A t \in Turns : ErrorEvent(t) \in sent' => ~turns[t].aborted ]_vars

\* C25: the status events of the service come in the order ready,
\* listening, stopped/disconnected: 'listening' is emitted only when a
\* session was created ('ready') and no 'disconnected' was emitted since,
\* and 'stopped' only while a 'listening' is in force.
C25_StatusOrder ==
    [][ /\ Invoked(calls', Status("listening"))
           => sttServiceSession /\ disconnected = 0
        /\ Invoked(calls', Status("stopped")) => sttIsListening
      ]_vars

\* C26: a chunk that went through convertFloat32ToInt16, arrayBufferToBase64
\* and the decoding of the base64 string comes back with as many samples,
\* each within one quantization step of the original sample scaled to 16
\* bits when the original lies in [-1, 1], and equal to the nearest end of
\* the 16-bit range (never wrapped) when it lies outside.
C26_PcmRoundTrip ==
    pcmPc = "decoded"
    => /\ Len(decoded) = Len(float32Array)
       /\ \A i \in 1..Len(float32Array) :
             LET x == float32Array[i]
                 q == decoded[i]
             IN  /\ x > Denominator => q = 32767
                 /\ x < -Denominator => q = -32768
                 /\ (0 <= x /\ x <= Denominator)
                    => /\ q * Denominator <= x * 32767
                       /\ x * 32767 - q * Denominator < Denominator
                 /\ (-Denominator <= x /\ x < 0)
                    => /\ x * 32768 <= q * Denominator
                       /\ q * Denominator - x * 32768 < Denominator

\* C26 witness: a chunk with a sample above 1 and a sample strictly between
\* two 16-bit values has been encoded and decoded.
C26_Witness ==
    /\ pcmPc = "decoded"
    /\ float32Array = <<1500, -999>>
    /\ decoded = <<32767, -32735>>

\* C27, as stated: while a segment is active it ends exactly on the fifth
\* consecutive no-voice frame; a voiced frame sets the silence counter to 0
\* and keeps the segment, and a no-voice frame that is not the fifth in a
\* row keeps it as well.
C27_Original ==
    [][ (isCurrentlyVoice /\ lastCall'.op = "onaudioprocess")
        => /\ lastFrame' = "voice" => (silenceFrameCount' = 0 /\ isCurrentlyVoice')
           /\ lastFrame' = "silence"
              => IF silenceFrameCount + 1 = 5
                 THEN ~isCurrentlyVoice' /\ lastEnd'.kind # "none"
                 ELSE /\ isCurrentlyVoice'
                      /\ silenceFrameCount' = silenceFrameCount + 1
                      /\ lastEnd'.kind = "none"
      ]_vars

\* C27, amended: the same, except on the frame that brings the buffer to
\* MAX_SEGMENT_DURATION, which ends the segment whatever the frame and the
\* silence counter are.
C27_SilenceEndsSegment ==
    [][ (isCurrentlyVoice /\ lastCall'.op = "onaudioprocess")
        => LET atCap == currentSegment + samplesPerChunk >= CapSamples
           IN  /\ lastFrame' = "voice"
                  => (silenceFrameCount' = 0 /\ (isCurrentlyVoice' <=> ~atCap))
               /\ lastFrame' = "silence"
                  => IF silenceFrameCount + 1 = 5 \/ atCap
                     THEN ~isCurrentlyVoice' /\ lastEnd'.kind # "none"
                     ELSE /\ isCurrentlyVoice'
                          /\ silenceFrameCount' = silenceFrameCount + 1
                          /\ lastEnd'.kind = "none"
      ]_vars

\* C27 witness: a segment of two voiced frames was ended, far below the cap,
\* by the fifth no-voice frame after them.
C27_Witness ==
    /\ lastCall.op = "onaudioprocess"
    /\ lastFrame = "silence"
    /\ lastEnd = [kind |-> "sent", len |-> 7 * samplesPerChunk]
    /\ ~isCurrentlyVoice
    /\ isCapturing

\* C28: for the delta/completed provider no interim event carries the
\* audio-artifact marker: a delta that contains it raises no event, and its
\* text is in no interim event raised later.
C28_ArtifactFiltered ==
    modelInfo = "openai"
    => \A i \in 1..Len(calls) :
          (calls[i].cb = "onTranscriptionUpdate" /\ ~calls[i].isFinal)
          => ~Includes(calls[i].text, AudioMarker)

\* The callbacks of a step that carry a transcription.
Transcriptions(cs) ==
    {i \in 1..Len(cs) : cs[i].cb \in {"onTranscriptionUpdate", "onTranscriptionComplete"}}

\* C29: for the turn-based provider a delta that is empty, blank or the
\* '<noise>' token leaves the accumulator as it was and raises no
\* transcription callback; a turn-complete message raises exactly one Final
\* with the accumulated text when the accumulator is not empty, nothing
\* when it is empty, and in neither case an interim event.
C29_NoiseAndTurnComplete ==
    [][ (modelInfo = "gemini" /\ lastMessage'.type # "none")
        => /\ ( /\ ~lastMessage'.turnComplete
                /\ lastMessage'.text \in {<<>>, <<" ">>, <<"<noise>">>} )
              => /\ currentTranscription' = currentTranscription
                 /\ Transcriptions(calls') = {}
           /\ lastMessage'.turnComplete
              => calls' = IF currentTranscription # <<>>
                          THEN <<Complete(currentTranscription)>>
                          ELSE <<>>
      ]_vars

\* C29 witness: a '<noise>' delta has arrived after a delta with text; the
\* accumulator still holds that text only and nothing was raised.
C29_Witness ==
    /\ modelInfo = "gemini"
    /\ lastMessage.text = <<GeminiNoise>>
    /\ ~lastMessage.turnComplete
    /\ currentTranscription = <<"a">>
    /\ calls = <<>>

\* C30: a content delta read from a stream extends state.currentResponse by
\* exactly that token: before the delta the state holds the text the stream
\* had produced so far, after it the same text with the token appended; and
\* a stream that has ended gains no further token.
C30_ResponseGrowsByAppending ==
    [][ \A t \in Turns :
          /\ ( /\ turns[t].pc = "reading"
               /\ turns'[t].pc = "reading"
               /\ turns'[t].fullResponse # turns[t].fullResponse )
             => /\ turns'[t].fullResponse = turns[t].fullResponse + 1
                /\ state.currentResponse =
                      Resp(t, turns[t].call, turns[t].fullResponse)
                /\ state'.currentResponse =
                      Resp(t, turns[t].call, turns[t].fullResponse + 1)
          /\ turns[t].pc \in {"saveAssistant", "awaitConversational"}
             => turns'[t].fullResponse \in {turns[t].fullResponse, 0}
      ]_vars

\* C31: the audio cache never holds more than maxCacheSize entries, and an
\* entry that a speak call pushes out of the cache is the least recently used
\* one, a speak call answered from the cache counting as a use
C31_CacheIsBoundedLru ==
    [][/\ Len(audioCache') <= maxCacheSize
       /\ \A k \in Keys(audioCache) :
             (audioCache' # <<>> /\ k \notin Keys(audioCache'))
                 => k = Head(lastUsed)]_vars

\* C32: state.isLoading and state.isStreaming are never both true, whatever
\* the interleaving of sendMessage calls, stream reads, closeAskWindow and
\* speech-to-text callbacks
C32_NotLoadingAndStreaming == ~(state.isLoading /\ state.isStreaming)

\* a turn was submitted while the stream of an earlier one is still being
\* read, and that stream has since delivered a token
C32_Witness ==
    \E t, u \in Turns :
        /\ t < u
        /\ turns[t].pc = "reading" /\ turns[t].fullResponse > 0
        /\ turns[u].pc \in {"persist", "prepare", "streamChat"}
        /\ state.isLoading
        /\ state.currentResponse.turn = t

\* C33: when a sendMessage call returns, with success or with failure, and
\* no newer turn was submitted in the meantime, state.isLoading and
\* state.isStreaming are both false, also when the call returns because the
\* ask window was unavailable as the stream was opened
C33_FlagsClearedAtReturn ==
    (/\ returned.turn # 0
     /\ \A u \in Turns : u > returned.turn => turns[u].pc = "idle")
        => ~state.isLoading /\ ~state.isStreaming

\* C34: while neither a startVoiceInput call nor a closeAskWindow call is in
\* progress, state.isListening of AskService equals isListening of
\* AskSttService
C34_ListeningFlagsAgree ==
    (voicePc = "idle" /\ closePc = "idle") => state.isListening = sttIsListening

\* C35: at most one adapter session made by createSTT is open at any time,
\* so that none is open without AskSttService.sttSession referring to it
C35_AtMostOneOpenSession == OpenSessions <= 1

\* C36: in conversation mode a speech segment the VAD delivered is handed
\* to sendAudioData at most once, also when stopConversationMode or a new
\* speech start comes while handleVADSpeechEnd awaits its send
C36_SegmentSentAtMostOnce == segmentSends <= 1

\* C37: once the startCapture calls have returned, overlapping ones
\* included, no media stream is live and no audio context is open other
\* than the ones the fields of the capture refer to, so that at most one
\* capture is live
C37_OneLiveCapture ==
    (\A p \in StartCalls : startCapturePc[p] = "done")
        => /\ liveStreams \subseteq {mediaStream}
           /\ liveContexts \subseteq {audioContext}

\* The content deltas of the data frames sent before the first [DONE] frame,
\* in order.
RECURSIVE DeltasBeforeDone(_)
DeltasBeforeDone(fs) ==
    IF fs = <<>> \/ Head(fs) = DoneMark THEN <<>>
    ELSE IF Head(fs) = "" THEN DeltasBeforeDone(Tail(fs))
    ELSE <<Head(fs)>> \o DeltasBeforeDone(Tail(fs))

\* C38: when _processStream has read the stream, the response it has
\* accumulated is the concatenation, in order, of the content deltas of the
\* data frames sent before [DONE], however the body was split into chunks
C38_ResponseIsConcatenation ==
    (loop = "primary" /\ streamPc = "returned")
        => accumulated = DeltasBeforeDone(frames)

RECURSIVE IsSubsequence(_, _)
IsSubsequence(s, t) ==
    IF s = <<>> THEN TRUE
    ELSE IF t = <<>> THEN FALSE
    ELSE IF Head(s) = Head(t) THEN IsSubsequence(Tail(s), Tail(t))
    ELSE IsSubsequence(s, Tail(t))

\* C39: the text the parallel generation has accumulated holds no content
\* delta of a frame that came after a 'data: [DONE]' frame, in the same chunk
\* or in a later one
C39_NothingAfterDone ==
    loop = "parallel" => IsSubsequence(accumulated, DeltasBeforeDone(frames))

====
